---- MODULE Spec2Model ----
(***************************************************************************)
(* A model of the E01 viewer's three decoders: the EWF container walk      *)
(* (src/components/E01Viewer.tsx, parseE01 and its helpers) and the        *)
(* partition-table parser (src/lib/fat32-parser.ts, parsePartitionTable).  *)
(*                                                                         *)
(* Bytes are integers 0..255 and a buffer (Uint8Array) is a sequence of    *)
(* bytes; the code's 0-based offsets are kept, so byte o of buffer b is    *)
(* b[o + 1].  A string is the sequence of its character codes.  An         *)
(* optional value (null / undefined in the code) is <<>> when absent and   *)
(* <<v>> when present.  An object used as a map (the metadata) is a        *)
(* function from keys to values.                                           *)
(***************************************************************************)
EXTENDS Integers, Sequences, FiniteSets, TLC

VARIABLES
  \* parseE01
  data,         \* the bytes of the file handed to parseE01
  pc,           \* where parseE01 stands: "start", "walk", "finish", "done" ("idle": not running)
  offset,       \* the walk's current offset
  dataChunks,   \* the payloads of the sectors / data sections met so far
  result,       \* the E01ParseResult under construction
  \* the header dispatch of parseE01, on its own
  hdrSections,  \* the payloads of a file's header sections, in file order
  hdrIndex,     \* the header section to decode next, from 1
  hdrMeta,      \* result.metadata so far
  \* parsePartitionTable
  disk,         \* the raw disk buffer
  sectorSize,   \* the sectorSize argument
  table,        \* the PartitionTable returned, <<>> before the call
  extracted,    \* the partition handed to extractPartitionData and the slice returned, <<>> before
  ptPc,         \* "call", "done", "extracted" ("idle": not running)
  \* parseDirectory
  dirData,        \* the bytes of the directory
  dirPath,        \* the parentPath argument
  dirOffset,      \* the offset of the slot to decode next
  longNameBuffer, \* the strings of the long-name slots met, by ordinal - 1
  dirEntries,     \* the entries emitted so far
  dirPc,          \* "loop", "done" ("idle": not running)
  \* parseFAT
  fatData,        \* the bytes of the partition
  fatPc,          \* "start", "chain", "walk", "done" ("idle": not running)
  fatResult,      \* the FATParseResult under construction
  fatStack,       \* the loops over the entries of a directory under way, the innermost last
  fatChain,       \* the readClusterChain under way while fatPc is "chain"
  \* the viewer
  viewerResult,      \* result: the stored E01ParseResult, <<>> for null
  partitionTable,    \* the stored PartitionTable, <<>> for null
  selectedPartition, \* the index of the partition selected, <<>> for null
  viewerFatResult,   \* fatResult: the stored FATParseResult, <<>> for null
  fsErrors,          \* the filesystem errors shown
  viewerPc,          \* "loading" and "parsingFiles" while the flag of that name is set, else "idle"
  fileName,          \* the file whose name and size are shown, <<>> for none
  pending            \* the files whose parseE01 processFile waits for

ewfVars == <<data, pc, offset, dataChunks, result>>
hdrVars == <<hdrSections, hdrIndex, hdrMeta>>
ptVars == <<disk, sectorSize, table, extracted, ptPc>>
dirVars == <<dirData, dirPath, dirOffset, longNameBuffer, dirEntries, dirPc>>
fatVars == <<fatData, fatPc, fatResult, fatStack, fatChain>>
viewerVars == <<viewerResult, partitionTable, selectedPartition, viewerFatResult, fsErrors, viewerPc, fileName, pending>>
vars == <<ewfVars, hdrVars, ptVars, dirVars, fatVars, viewerVars>>

\* The variables outside each decoder.
outsideEwf == <<hdrVars, ptVars, dirVars, fatVars, viewerVars>>
outsideHdr == <<ewfVars, ptVars, dirVars, fatVars, viewerVars>>
outsidePt == <<ewfVars, hdrVars, dirVars, fatVars, viewerVars>>
outsideDir == <<ewfVars, hdrVars, ptVars, fatVars, viewerVars>>
outsideFat == <<ewfVars, hdrVars, ptVars, dirVars, viewerVars>>
outsideViewer == <<ewfVars, hdrVars, ptVars, dirVars, fatVars>>

(***************************************************************************)
(* Bounds of the model.                                                    *)
(***************************************************************************)
\* Section blocks (descriptor + payload) laid out in a generated file.
MaxSections == 2
\* Header sections decoded in a row by the header specification.
MaxHeaders == 2
\* Partition entries in the generated GPT entry array.
MaxGptEntries == 2
\* Slots of a generated directory.
MaxDirSlots == 3
\* the clusters of data of an input FAT image
MaxClusters == 3

(***************************************************************************)
(* Buffers, numbers and strings as JavaScript treats them.                 *)
(***************************************************************************)
None == <<>>
Some(v) == <<v>>
EmptyMap == <<>>

Min(a, b) == IF a <= b THEN a ELSE b
Max(a, b) == IF a >= b THEN a ELSE b

\* b.slice(start, end) for 0 <= start, 0 <= end: both clamped to the length.
Slice(b, start, end) ==
  LET s == Min(start, Len(b))
      e == Min(end, Len(b))
  IN IF s >= e THEN <<>> ELSE SubSeq(b, s + 1, e)

\* b.slice(start, -k): the end counted from the end of the buffer.
SliceFromEnd(b, start, k) == Slice(b, start, Max(Len(b) - k, 0))

Zeros(n) == [i \in 1..n |-> 0]

RECURSIVE Concat(_)
\* The concatenation of a sequence of buffers, in order.
Concat(chunks) ==
  IF chunks = <<>> THEN <<>> ELSE Head(chunks) \o Concat(Tail(chunks))

RECURSIVE SumLen(_)
SumLen(chunks) ==
  IF chunks = <<>> THEN 0 ELSE Len(Head(chunks)) + SumLen(Tail(chunks))

\* A bigint read from 8 bytes is kept as those 8 bytes, least significant
\* first.  Number(bigint) is exact below NumberCap; every value at or above
\* it is represented by NumberCap itself.  The code only ever compares the
\* converted value with offsets and lengths inside the file, all below
\* NumberCap in this model, so the comparisons come out as in the code.
NumberCap == 2^30

BigIsZero(big) == \A i \in 1..8 : big[i] = 0

Number(big) ==
  IF (\A i \in 5..8 : big[i] = 0) /\ big[4] < 64
  THEN big[1] + big[2] * 256 + big[3] * 65536 + big[4] * 16777216
  ELSE NumberCap

\* JavaScript's white space, as String.prototype.trim strips it.
WhiteSpace ==
  {9, 10, 11, 12, 13, 32, 160, 5760, 8232, 8233, 8239, 8287, 12288, 65279}
    \cup (8192..8202)

RECURSIVE TrimStart(_)
TrimStart(s) ==
  IF s # <<>> /\ Head(s) \in WhiteSpace THEN TrimStart(Tail(s)) ELSE s

RECURSIVE TrimEnd(_)
TrimEnd(s) ==
  IF s # <<>> /\ s[Len(s)] \in WhiteSpace
  THEN TrimEnd(SubSeq(s, 1, Len(s) - 1))
  ELSE s

Trim(s) == TrimEnd(TrimStart(s))

\* toLowerCase on the characters the model's inputs hold (ASCII and U+FFFD).
ToLowerCase(s) ==
  [i \in 1..Len(s) |-> IF s[i] >= 65 /\ s[i] <= 90 THEN s[i] + 32 ELSE s[i]]

\* TextDecoder('utf-8', {fatal: false}).decode: an ASCII byte is its own
\* character; the model's inputs hold no well-formed multi-byte sequence,
\* so every other byte is malformed and decodes to U+FFFD.
Utf8Decode(bytes) ==
  [i \in 1..Len(bytes) |-> IF bytes[i] < 128 THEN bytes[i] ELSE 65533]

RECURSIVE SplitFrom(_, _, _, _, _, _)
\* text.split(sep): with runs, a run of separators counts as one (the
\* regular expression /[\r\n]+/); without, every separator splits.
SplitFrom(text, i, cur, acc, seps, runs) ==
  IF i > Len(text) THEN Append(acc, cur)
  ELSE IF text[i] \in seps
       THEN IF runs /\ i < Len(text) /\ text[i + 1] \in seps
            THEN SplitFrom(text, i + 1, cur, acc, seps, runs)
            ELSE SplitFrom(text, i + 1, <<>>, Append(acc, cur), seps, runs)
       ELSE SplitFrom(text, i + 1, Append(cur, text[i]), acc, seps, runs)

Split(text, seps, runs) == SplitFrom(text, 1, <<>>, <<>>, seps, runs)

RECURSIVE Join(_, _)
\* parts.join(sep), sep one character.
Join(parts, sep) ==
  IF parts = <<>> THEN <<>>
  ELSE IF Len(parts) = 1 THEN parts[1]
       ELSE parts[1] \o <<sep>> \o Join(Tail(parts), sep)

\* obj[key] = value
MapSet(m, key, value) ==
  [k \in (DOMAIN m) \cup {key} |-> IF k = key THEN value ELSE m[k]]

\* { ...a, ...b }
MapMerge(a, b) ==
  [k \in (DOMAIN a) \cup (DOMAIN b) |-> IF k \in DOMAIN b THEN b[k] ELSE a[k]]

(***************************************************************************)
(* The EWF constants.                                                      *)
(***************************************************************************)
EWF_SIGNATURE == <<69, 86, 70, 9, 13, 10, 255, 0>>

SECTION_TYPES ==
  [
    HEADER |-> <<104,101,97,100,101,114>>,
    HEADER2 |-> <<104,101,97,100,101,114,50>>,
    VOLUME |-> <<118,111,108,117,109,101>>,
    DISK |-> <<100,105,115,107>>,
    SECTORS |-> <<115,101,99,116,111,114,115>>,
    TABLE |-> <<116,97,98,108,101>>,
    TABLE2 |-> <<116,97,98,108,101,50>>,
    DATA |-> <<100,97,116,97>>,
    HASH |-> <<104,97,115,104>>,
    DIGEST |-> <<100,105,103,101,115,116>>,
    DONE |-> <<100,111,110,101>>,
    NEXT |-> <<110,101,120,116>>
  ]

\* The section descriptor's size, and the offset of the first descriptor
\* (8 bytes of signature and 5 of segment header).
DescriptorSize == 76
FirstSectionOffset == 13

InvalidSignatureError == "Invalid EWF signature. This may not be a valid E01 file."

(***************************************************************************)
(* parseE01's helpers.                                                     *)
(***************************************************************************)
\* A plausible slip: the loop compares one byte too few.
checkSignatureShort(d) ==
  Len(d) >= 8 /\ \A i \in 1..(Len(EWF_SIGNATURE) - 1) : d[i] = EWF_SIGNATURE[i]

checkSignature(d) ==
  Len(d) >= 8 /\ \A i \in 1..Len(EWF_SIGNATURE) : d[i] = EWF_SIGNATURE[i]

RECURSIVE StringEnd(_, _, _)
\* readString's loop: the first end >= from that is at the limit, at the
\* end of the buffer, or on a NUL.
StringEnd(d, end, limit) ==
  IF end < limit /\ end < Len(d) /\ d[end + 1] # 0
  THEN StringEnd(d, end + 1, limit)
  ELSE end

readString(d, o, maxLength) ==
  Utf8Decode(Slice(d, o, StringEnd(d, o, o + maxLength)))

readSectionType(d, o) == Trim(ToLowerCase(readString(d, o, 16)))

\* The 8 bytes at o, least significant first (the walk only reads inside
\* the buffer: o + 32 <= o + 76 < length).
readUint64LE(d, o) == Slice(d, o, o + 8)

readUint32LE(d, o) ==
  d[o + 1] + d[o + 2] * 256 + d[o + 3] * 65536 + d[o + 4] * 16777216

(***************************************************************************)
(* parseHeaderSection.                                                     *)
(***************************************************************************)
\* The keys the switch names, by result property.
HeaderKey ==
  [
    c |-> <<99>>,
    case |-> <<99,97,115,101>>,
    case_number |-> <<99,97,115,101,95,110,117,109,98,101,114>>,
    n |-> <<110>>,
    name |-> <<110,97,109,101>>,
    description |-> <<100,101,115,99,114,105,112,116,105,111,110>>,
    e |-> <<101>>,
    examiner |-> <<101,120,97,109,105,110,101,114>>,
    examiner_name |-> <<101,120,97,109,105,110,101,114,95,110,97,109,101>>,
    ev |-> <<101,118>>,
    evidence |-> <<101,118,105,100,101,110,99,101>>,
    evidence_number |-> <<101,118,105,100,101,110,99,101,95,110,117,109,98,101,114>>,
    no |-> <<110,111>>,
    notes |-> <<110,111,116,101,115>>,
    a |-> <<97>>,
    acquired |-> <<97,99,113,117,105,114,101,100>>,
    acquired_date |-> <<97,99,113,117,105,114,101,100,95,100,97,116,101>>,
    m |-> <<109>>,
    system |-> <<115,121,115,116,101,109>>,
    system_date |-> <<115,121,115,116,101,109,95,100,97,116,101>>,
    os |-> <<111,115>>,
    operating_system |-> <<111,112,101,114,97,116,105,110,103,95,115,121,115,116,101,109>>,
    p |-> <<112>>,
    password |-> <<112,97,115,115,119,111,114,100>>,
    r |-> <<114>>,
    compression |-> <<99,111,109,112,114,101,115,115,105,111,110>>
  ]

\* The property names of E01Metadata the switch assigns.
MetaProp ==
  [
    caseNumber |-> <<99,97,115,101,78,117,109,98,101,114>>,
    description |-> <<100,101,115,99,114,105,112,116,105,111,110>>,
    examinerName |-> <<101,120,97,109,105,110,101,114,78,97,109,101>>,
    evidenceNumber |-> <<101,118,105,100,101,110,99,101,78,117,109,98,101,114>>,
    notes |-> <<110,111,116,101,115>>,
    acquiredDate |-> <<97,99,113,117,105,114,101,100,68,97,116,101>>,
    systemDate |-> <<115,121,115,116,101,109,68,97,116,101>>,
    operatingSystem |-> <<111,112,101,114,97,116,105,110,103,83,121,115,116,101,109>>,
    password |-> <<112,97,115,115,119,111,114,100>>,
    compressionLevel |-> <<99,111,109,112,114,101,115,115,105,111,110,76,101,118,101,108>>
  ]

\* The switch's case labels: the property a key is stored under, None for
\* the default branch.
HeaderProperty(key) ==
  CASE key \in {HeaderKey.c, HeaderKey.case, HeaderKey.case_number} ->
         Some(MetaProp.caseNumber)
    [] key \in {HeaderKey.n, HeaderKey.name, HeaderKey.description} ->
         Some(MetaProp.description)
    [] key \in {HeaderKey.e, HeaderKey.examiner, HeaderKey.examiner_name} ->
         Some(MetaProp.examinerName)
    [] key \in {HeaderKey.ev, HeaderKey.evidence, HeaderKey.evidence_number} ->
         Some(MetaProp.evidenceNumber)
    [] key \in {HeaderKey.no, HeaderKey.notes} ->
         Some(MetaProp.notes)
    [] key \in {HeaderKey.a, HeaderKey.acquired, HeaderKey.acquired_date} ->
         Some(MetaProp.acquiredDate)
    [] key \in {HeaderKey.m, HeaderKey.system, HeaderKey.system_date} ->
         Some(MetaProp.systemDate)
    [] key \in {HeaderKey.os, HeaderKey.operating_system} ->
         Some(MetaProp.operatingSystem)
    [] key \in {HeaderKey.p, HeaderKey.password} ->
         Some(MetaProp.password)
    [] key \in {HeaderKey.r, HeaderKey.compression} ->
         Some(MetaProp.compressionLevel)
    [] OTHER -> None

\* inflateRaw returns its argument on both of its paths.
inflateRaw(d) == d

\* decompressZlib: the 2-byte zlib header and the 4-byte checksum are cut
\* off and the rest goes through inflateRaw.
decompressZlib(d) == inflateRaw(SliceFromEnd(d, 2, 4))

\* The body of the loop over the lines: one line's effect on the metadata.
HeaderLine(metadata, line) ==
  LET tabParts == Split(line, {9}, FALSE)
      parts == IF Len(tabParts) < 2 THEN Split(line, {61}, FALSE) ELSE tabParts
  IN IF Len(parts) >= 2
     THEN LET key == ToLowerCase(Trim(parts[1]))
              value == Trim(Join(Tail(parts), 61))
              prop == HeaderProperty(key)
          IN IF prop # None THEN MapSet(metadata, prop[1], value)
             ELSE IF key # <<>> /\ value # <<>> THEN MapSet(metadata, key, value)
             ELSE metadata
     ELSE metadata

RECURSIVE HeaderLines(_, _)
HeaderLines(metadata, lines) ==
  IF lines = <<>> THEN metadata
  ELSE HeaderLines(HeaderLine(metadata, Head(lines)), Tail(lines))

parseHeaderSection(sectionData) ==
  LET decompressed ==
        IF Len(sectionData) > 2 /\ sectionData[1] = 120
        THEN Some(decompressZlib(sectionData))
        ELSE None
      \* a Uint8Array is truthy even when empty
      textData == IF decompressed # None THEN decompressed[1] ELSE sectionData
      text == Utf8Decode(textData)
      lines == Split(text, {13, 10}, TRUE)
  IN HeaderLines(EmptyMap, lines)

\* metadata = { ...metadata, ...parseHeaderSection(sectionData) }
MergeHeader(metadata, sectionData) ==
  MapMerge(metadata, parseHeaderSection(sectionData))

(***************************************************************************)
(* parseVolumeSection and parseHashSection.                                *)
(***************************************************************************)
parseVolumeSection(sectionData) ==
  IF Len(sectionData) >= 32
  THEN [mediaType |-> sectionData[1],
        chunkCount |-> readUint32LE(sectionData, 4),
        sectorsPerChunk |-> readUint32LE(sectionData, 8),
        bytesPerSector |-> readUint32LE(sectionData, 12),
        sectorCount |-> readUint64LE(sectionData, 16)]
  ELSE EmptyMap

\* One hexadecimal digit's character code, lower case.
HexDigit(v) == IF v < 10 THEN 48 + v ELSE 87 + v

\* b.toString(16).padStart(2, '0')
HexByte(b) == <<HexDigit(b \div 16), HexDigit(b % 16)>>

RECURSIVE HexString(_)
HexString(bytes) ==
  IF bytes = <<>> THEN <<>> ELSE HexByte(Head(bytes)) \o HexString(Tail(bytes))

parseHashSection(sectionData) ==
  LET md5 == IF Len(sectionData) >= 16
             THEN [k \in {"md5"} |-> HexString(Slice(sectionData, 0, 16))]
             ELSE EmptyMap
      sha1 == IF Len(sectionData) >= 36
              THEN [k \in {"sha1"} |-> HexString(Slice(sectionData, 16, 36))]
              ELSE EmptyMap
  IN MapMerge(md5, sha1)

(***************************************************************************)
(* parseE01: the section walk.                                             *)
(***************************************************************************)
InitialResult ==
  [valid |-> FALSE,
   signature |-> Zeros(8),
   sections |-> <<>>,
   metadata |-> EmptyMap,
   volumeInfo |-> None,
   rawDiskData |-> None,
   hash |-> None,
   errors |-> <<>>]

\* The while condition of the walk.
WalkCondition(o, length) == o < length - DescriptorSize

\* A plausible slip: only the type is tested, not the size.
IsEmptySectionTypeOnly(sectionType, sectionSize) == sectionType = <<>>

\* "Skip empty or invalid sections": the walk stops on them.
IsEmptySection(sectionType, sectionSize) ==
  sectionType = <<>> \/ BigIsZero(sectionSize)

\* A plausible slip: only 'sectors' payloads are collected.
IsDiskChunkTypeSectorsOnly(sectionType) == sectionType = SECTION_TYPES.SECTORS

\* The section types whose payload is pushed on dataChunks.
IsDiskChunkType(sectionType) ==
  sectionType = SECTION_TYPES.SECTORS \/ sectionType = SECTION_TYPES.DATA

\* The if / else-if chain on the section type, as far as it writes result.
Dispatch(res, section) ==
  LET t == section.type
  IN IF t = SECTION_TYPES.HEADER \/ t = SECTION_TYPES.HEADER2
     THEN [res EXCEPT !.metadata = MergeHeader(@, section.data)]
     ELSE IF t = SECTION_TYPES.VOLUME \/ t = SECTION_TYPES.DISK
     THEN [res EXCEPT !.volumeInfo = Some(parseVolumeSection(section.data))]
     ELSE IF IsDiskChunkType(t)
     THEN res
     ELSE IF t = SECTION_TYPES.HASH \/ t = SECTION_TYPES.DIGEST
     THEN [res EXCEPT !.hash = Some(parseHashSection(section.data))]
     ELSE res

\* A plausible slip: next_offset is followed whenever it is set, and only a
\* section pointing at itself stops the walk.
AdvanceFollowNext(section, dataOffset, safeDataSize) ==
  LET o == IF ~BigIsZero(section.nextOffset)
           THEN Number(section.nextOffset)
           ELSE dataOffset + safeDataSize
  IN [offset |-> o, stop |-> o = section.offset]

\* A plausible slip: next_offset is always followed and only a next_offset
\* of 0 ends the walk.
AdvanceTrustNext(section, dataOffset, safeDataSize) ==
  [offset |-> Number(section.nextOffset), stop |-> BigIsZero(section.nextOffset)]

\* "Move to next section" and the safety check after it: the new offset,
\* and whether the walk breaks.
Advance(section, dataOffset, safeDataSize) ==
  LET o == IF Number(section.nextOffset) > section.offset
           THEN Number(section.nextOffset)
           ELSE dataOffset + safeDataSize
  IN [offset |-> o, stop |-> o <= section.offset]

\* "Ensure we don't read past end of file": Math.min(dataSize, remaining).
SafeDataSize(d, o) ==
  Min(Number(readUint64LE(d, o + 24)), Len(d) - (o + DescriptorSize))

\* The section the walk emits at offset o (the loop body up to the push).
SectionAt(d, o) ==
  LET dataOffset == o + DescriptorSize
      safeDataSize == SafeDataSize(d, o)
  IN [type |-> readSectionType(d, o),
      nextOffset |-> readUint64LE(d, o + 16),
      size |-> readUint64LE(d, o + 24),
      data |-> Slice(d, dataOffset, dataOffset + safeDataSize),
      offset |-> o]

\* parseE01 up to the loop: the signature check.
CheckSignature ==
  /\ pc = "start"
  /\ IF ~checkSignature(data)
     THEN /\ result' = [result EXCEPT !.errors = Append(@, InvalidSignatureError)]
          /\ pc' = "done"
          /\ UNCHANGED offset
     ELSE /\ result' = [result EXCEPT !.signature = Slice(data, 0, 8),
                                      !.valid = TRUE]
          /\ offset' = FirstSectionOffset
          /\ pc' = "walk"
  /\ UNCHANGED <<data, dataChunks, outsideEwf>>

\* One evaluation of the while condition and, when it holds, one iteration.
Walk ==
  /\ pc = "walk"
  /\ IF WalkCondition(offset, Len(data))
     THEN LET section == SectionAt(data, offset)
              adv == Advance(section, offset + DescriptorSize, SafeDataSize(data, offset))
          IN IF IsEmptySection(section.type, section.size)
             THEN /\ pc' = "finish"
                  /\ UNCHANGED <<offset, dataChunks, result>>
             ELSE /\ result' = Dispatch([result EXCEPT !.sections = Append(@, section)],
                                        section)
                  /\ dataChunks' = IF IsDiskChunkType(section.type)
                                   THEN Append(dataChunks, section.data)
                                   ELSE dataChunks
                  /\ IF section.type = SECTION_TYPES.DONE
                     THEN pc' = "finish" /\ offset' = offset
                     ELSE /\ offset' = adv.offset
                          /\ pc' = IF adv.stop THEN "finish" ELSE "walk"
     ELSE /\ pc' = "finish"
          /\ UNCHANGED <<offset, dataChunks, result>>
  /\ UNCHANGED <<data, outsideEwf>>

\* "Combine data chunks into raw disk data", and the return.
Finish ==
  /\ pc = "finish"
  /\ result' = IF Len(dataChunks) > 0
               THEN [result EXCEPT !.rawDiskData = Some(Concat(dataChunks))]
               ELSE result
  /\ pc' = "done"
  /\ UNCHANGED <<data, offset, dataChunks, outsideEwf>>

(***************************************************************************)
(* The files parseE01 is run on: a signature, the 5-byte segment header    *)
(* and up to MaxSections section blocks (a 76-byte descriptor and its      *)
(* payload), then a tail.  The descriptors carry well-formed and           *)
(* adversarial next_offset and size fields.                                *)
(***************************************************************************)
\* The 8 bytes of n, least significant first (0 <= n < 2^31).
U64Bytes(n) == [i \in 1..8 |-> IF i <= 4 THEN (n \div (256 ^ (i - 1))) % 256 ELSE 0]

\* 2^32 + 5: beyond 32 bits.
BigHuge == <<5, 0, 0, 0, 1, 0, 0, 0>>

\* type[16], next_offset u64le, size u64le, padding[40], checksum u32le
Descriptor(typeField, next, size) ==
  typeField \o Zeros(16 - Len(typeField)) \o next \o size \o Zeros(44)

\* The next_offset a block at offset o with an n-byte payload carries.
NextField(kind, o, n) ==
  CASE kind = "zero" -> U64Bytes(0)
    [] kind = "self" -> U64Bytes(o)
    [] kind = "exact" -> U64Bytes(o + DescriptorSize + n)
    [] kind = "inside" -> U64Bytes(o + DescriptorSize + 1)
    [] kind = "back" -> U64Bytes(FirstSectionOffset + DescriptorSize + 1)
    [] kind = "huge" -> BigHuge

\* The size a block with an n-byte payload carries.
SizeField(kind, n) ==
  CASE kind = "zero" -> U64Bytes(0)
    [] kind = "one" -> U64Bytes(1)
    [] kind = "exact" -> U64Bytes(n)
    [] kind = "over" -> U64Bytes(n + 200)
    [] kind = "huge" -> BigHuge

\* Payloads: disk chunks differ from block to block, so that the order of
\* concatenation shows; header payloads are header texts.
ChunkPayload(i) == <<16 * i + 1, 16 * i + 2, 16 * i + 3, 16 * i + 4>>
\* "c\tA\nfoo=b\n"
HeaderText1 == <<99, 9, 65, 10, 102, 111, 111, 61, 98, 10>>
\* "xy\nc\tB\nE=\nzzzz": starts with 0x78
HeaderText2 == <<120, 121, 10, 99, 9, 66, 10, 69, 61, 10, 122, 122, 122, 122>>
VolumePayload ==
  <<1, 0, 0, 0,  2, 0, 0, 0,  64, 0, 0, 0,  0, 2, 0, 0,
    128, 0, 0, 0, 1, 0, 0, 0,  0, 0, 0, 0, 0, 0, 0, 0>>
HashPayload == [i \in 1..36 |-> (7 * i) % 256]

\* " SECTORS": the type field is trimmed and lower-cased.
UpperSectors == <<32, 83, 69, 67, 84, 79, 82, 83>>

\* The shapes of a block: type field, payload, next_offset and size kinds.
BlockKinds(i) ==
  LET adversarial ==
        {<<n, "exact">> : n \in {"zero", "self", "exact", "inside", "back", "huge"}}
          \cup {<<n, z>> : n \in {"zero", "exact"}, z \in {"zero", "one", "over", "huge"}}
      K(t, p, n, z) == [type |-> t, payload |-> p, next |-> n, size |-> z]
  IN {K(SECTION_TYPES.SECTORS, ChunkPayload(i), a[1], a[2]) : a \in adversarial}
       \cup {K(SECTION_TYPES.DATA, ChunkPayload(i), a[1], a[2]) :
               a \in {<<"exact", "exact">>, <<"zero", "one">>, <<"back", "over">>}}
       \cup {K(UpperSectors, ChunkPayload(i), "exact", "exact"),
             K(SECTION_TYPES.HEADER, HeaderText1, "exact", "exact"),
             K(SECTION_TYPES.HEADER2, HeaderText2, "zero", "exact"),
             K(SECTION_TYPES.VOLUME, VolumePayload, "exact", "exact"),
             K(SECTION_TYPES.DISK, ChunkPayload(i), "exact", "exact"),
             K(SECTION_TYPES.HASH, HashPayload, "exact", "exact"),
             K(SECTION_TYPES.DIGEST, ChunkPayload(i), "zero", "exact"),
             K(SECTION_TYPES.TABLE, ChunkPayload(i), "exact", "exact"),
             K(SECTION_TYPES.DONE, ChunkPayload(i), "exact", "exact"),
             K(<<>>, ChunkPayload(i), "exact", "exact")}

\* The bytes of block k laid out at offset o.
BlockBytes(k, o) ==
  Descriptor(k.type, NextField(k.next, o, Len(k.payload)),
             SizeField(k.size, Len(k.payload))) \o k.payload

RECURSIVE FilesFrom(_, _)
\* Every file that extends prefix with at most MaxSections - i + 1 blocks.
FilesFrom(prefix, i) ==
  {prefix} \cup
    (IF i > MaxSections THEN {}
     ELSE UNION {FilesFrom(prefix \o BlockBytes(k, Len(prefix)), i + 1) :
                   k \in BlockKinds(i)})

\* Scenario 2 of the specification: the signature, 5 zero bytes and one
\* descriptor with type 'done', next_offset 0, size 76 and no payload.
MinimalEwf ==
  EWF_SIGNATURE \o Zeros(5) \o
    Descriptor(SECTION_TYPES.DONE, U64Bytes(0), U64Bytes(DescriptorSize))

SignedFiles ==
  {f \o Zeros(t) : f \in FilesFrom(EWF_SIGNATURE \o Zeros(5), 1),
                   t \in {0, DescriptorSize + 1}}
    \cup {MinimalEwf}

\* Files without the signature: too short, all zero, or one byte off.
UnsignedFiles ==
  {<<>>, SubSeq(EWF_SIGNATURE, 1, 7), Zeros(8), Zeros(512)}
    \cup {[MinimalEwf \o ChunkPayload(1) EXCEPT ![i] = (@ + 1) % 256] : i \in 1..8}

\* Files whose sections declare more than they hold: two disk chunks of a
\* size beyond 32 bits in a row, and a disk chunk whose next_offset points
\* one byte into its own payload, at the descriptor of a second one.
OverlapFiles ==
  {EWF_SIGNATURE \o Zeros(5)
     \o Descriptor(SECTION_TYPES.SECTORS,
                   U64Bytes(FirstSectionOffset + DescriptorSize + 4), BigHuge)
     \o ChunkPayload(1)
     \o Descriptor(SECTION_TYPES.SECTORS, U64Bytes(0), BigHuge)
     \o ChunkPayload(2) \o Zeros(100),
   EWF_SIGNATURE \o Zeros(5)
     \o Descriptor(SECTION_TYPES.SECTORS,
                   U64Bytes(FirstSectionOffset + DescriptorSize + 1), BigHuge)
     \o <<17>>
     \o Descriptor(SECTION_TYPES.DATA, U64Bytes(0), BigHuge)
     \o ChunkPayload(2) \o Zeros(100)}

InputFiles == SignedFiles \cup UnsignedFiles \cup OverlapFiles

(***************************************************************************)
(* The header dispatch on its own: the header sections of a file, decoded  *)
(* in order and merged into result.metadata.                               *)
(***************************************************************************)
\* The walk meets the next header section.
DecodeHeader ==
  /\ hdrIndex <= Len(hdrSections)
  /\ hdrMeta' = MergeHeader(hdrMeta, hdrSections[hdrIndex])
  /\ hdrIndex' = hdrIndex + 1
  /\ UNCHANGED <<hdrSections, outsideHdr>>

\* The keys of the header lines: every key of the switch, the canonical
\* name compression_level, an unknown key, the empty key, and keys with
\* upper case and white space.
compression_level_key == <<99,111,109,112,114,101,115,115,105,111,110,95,108,101,118,101,108>>
foo_key == <<102, 111, 111>>
LineKeys ==
  {HeaderKey[f] : f \in DOMAIN HeaderKey}
    \cup {compression_level_key, foo_key, <<>>, <<67>>, <<32, 69, 32>>}

\* One header line: key, TAB or '=', value ("" or one letter).
HeaderLinesIn ==
  {k \o <<sep>> \o v : k \in LineKeys, sep \in {9, 61}, v \in {<<>>, <<65>>, <<66>>}}

\* Scenario 3 of the specification: "c\tACME-1\ne\tJane\nfoo\tbar\n"
HeaderText3 ==
  <<99, 9, 65, 67, 77, 69, 45, 49, 10, 101, 9, 74, 97, 110, 101, 10,
    102, 111, 111, 9, 98, 97, 114, 10>>
\* "c\tA\r\nC = B = D \n\n=v\nk\n": override inside one section, CR LF,
\* a value holding '=', an empty key, a line without separator
HeaderText4 ==
  <<99, 9, 65, 13, 10, 67, 32, 61, 32, 66, 32, 61, 32, 68, 32, 10, 10,
    61, 118, 10, 107, 10>>

\* "x\nc\tACME": starts with 0x78, the case number in its last four bytes
HeaderText5 == <<120, 10, 99, 9, 65, 67, 77, 69>>

HeaderPayloads ==
  HeaderLinesIn
    \cup {HeaderText1, HeaderText2, HeaderText3, HeaderText4, HeaderText5, <<>>}

RECURSIVE QueuesFrom(_, _)
\* Every run of header sections that extends q to at most MaxHeaders.
QueuesFrom(q, i) ==
  (IF q = <<>> THEN {} ELSE {q}) \cup
    (IF i > MaxHeaders THEN {}
     ELSE UNION {QueuesFrom(Append(q, p), i + 1) : p \in HeaderPayloads})

(***************************************************************************)
(* fat32-parser.ts: the partition table of a raw disk buffer.              *)
(***************************************************************************)
\* The text of a GUID from its five groups of bytes, in display order.
GuidText(p1, p2, p3, p4, p5) ==
  HexString(p1) \o <<45>> \o HexString(p2) \o <<45>> \o HexString(p3)
    \o <<45>> \o HexString(p4) \o <<45>> \o HexString(p5)

MBR_PARTITION_TYPES ==
  0 :> "Empty" @@ 1 :> "FAT12" @@ 4 :> "FAT16 (<32MB)" @@ 5 :> "Extended" @@
  6 :> "FAT16" @@ 7 :> "NTFS/exFAT/HPFS" @@ 11 :> "FAT32 (CHS)" @@
  12 :> "FAT32 (LBA)" @@ 14 :> "FAT16 (LBA)" @@ 15 :> "Extended (LBA)" @@
  17 :> "Hidden FAT12" @@ 20 :> "Hidden FAT16 (<32MB)" @@
  22 :> "Hidden FAT16" @@ 23 :> "Hidden NTFS" @@ 27 :> "Hidden FAT32" @@
  28 :> "Hidden FAT32 (LBA)" @@ 30 :> "Hidden FAT16 (LBA)" @@
  39 :> "Windows Recovery" @@ 66 :> "Windows Dynamic" @@ 130 :> "Linux Swap" @@
  131 :> "Linux" @@ 133 :> "Linux Extended" @@ 142 :> "Linux LVM" @@
  238 :> "GPT Protective MBR" @@ 239 :> "EFI System" @@ 253 :> "Linux RAID"

ZeroGuid ==
  GuidText(<<0, 0, 0, 0>>, <<0, 0>>, <<0, 0>>, <<0, 0>>, <<0, 0, 0, 0, 0, 0>>)
EfiSystemGuid ==
  GuidText(<<193, 42, 115, 40>>, <<248, 31>>, <<17, 210>>, <<186, 75>>,
           <<0, 160, 201, 62, 201, 59>>)
BasicDataGuid ==
  GuidText(<<235, 208, 160, 162>>, <<185, 229>>, <<68, 51>>, <<135, 192>>,
           <<104, 182, 183, 38, 153, 199>>)
LinuxFilesystemGuid ==
  GuidText(<<15, 198, 61, 175>>, <<132, 131>>, <<71, 114>>, <<142, 121>>,
           <<61, 105, 216, 71, 125, 228>>)
AppleHfsGuid ==
  GuidText(<<72, 70, 83, 0>>, <<0, 0>>, <<17, 170>>, <<170, 17>>,
           <<0, 48, 101, 67, 236, 172>>)
AppleApfsGuid ==
  GuidText(<<124, 52, 87, 239>>, <<0, 0>>, <<17, 170>>, <<170, 17>>,
           <<0, 48, 101, 67, 236, 172>>)

GPT_PARTITION_TYPES ==
  ZeroGuid :> "Unused" @@
  EfiSystemGuid :> "EFI System" @@
  GuidText(<<2, 77, 238, 65>>, <<51, 231>>, <<17, 211>>, <<157, 105>>,
           <<0, 8, 199, 129, 243, 159>>) :> "MBR Partition Scheme" @@
  GuidText(<<227, 201, 227, 22>>, <<11, 92>>, <<77, 184>>, <<129, 125>>,
           <<249, 45, 240, 2, 21, 174>>) :> "Microsoft Reserved" @@
  BasicDataGuid :> "Microsoft Basic Data" @@
  GuidText(<<222, 148, 187, 164>>, <<6, 209>>, <<77, 64>>, <<161, 106>>,
           <<191, 213, 1, 121, 214, 172>>) :> "Windows Recovery" @@
  LinuxFilesystemGuid :> "Linux Filesystem" @@
  GuidText(<<6, 87, 253, 109>>, <<164, 171>>, <<67, 196>>, <<132, 229>>,
           <<9, 51, 200, 75, 79, 79>>) :> "Linux Swap" @@
  GuidText(<<230, 214, 211, 121>>, <<245, 7>>, <<68, 194>>, <<162, 60>>,
           <<35, 143, 42, 61, 249, 40>>) :> "Linux LVM" @@
  GuidText(<<147, 58, 199, 225>>, <<46, 180>>, <<79, 19>>, <<184, 68>>,
           <<14, 20, 226, 174, 249, 21>>) :> "Linux Home" @@
  AppleHfsGuid :> "Apple HFS+" @@
  AppleApfsGuid :> "Apple APFS"

\* Offsets and sizes of the on-disk layout.
MbrSize == 512
MbrSignatureOffset == 510
MbrTableOffset == 446
MbrEntrySize == 16
MbrSlots == 4
ProtectiveType == 238
GptHeaderSize == 92
GptMaxEntries == 128
DefaultSectorSize == 512

\* readUint32LE of fat32-parser.ts: 0 when the four bytes do not fit.  The
\* value is exact below 2^31, which the disks of the model stay under.
fat32_readUint32LE(d, o) ==
  IF o + 4 > Len(d) THEN 0
  ELSE d[o + 1] + d[o + 2] * 256 + d[o + 3] * 65536 + d[o + 4] * 16777216

\* readUint64LE of fat32-parser.ts: 0n when the eight bytes do not fit.
fat32_readUint64LE(d, o) ==
  IF o + 8 > Len(d) THEN Zeros(8) ELSE Slice(d, o, o + 8)

\* readGuid: '' when the 16 bytes do not fit; the first three groups are
\* little-endian numbers, the last two are bytes in order.
readGuid(d, o) ==
  IF o + 16 > Len(d) THEN <<>>
  ELSE GuidText(<<d[o + 4], d[o + 3], d[o + 2], d[o + 1]>>,
                <<d[o + 6], d[o + 5]>>,
                <<d[o + 8], d[o + 7]>>,
                Slice(d, o + 8, o + 10),
                Slice(d, o + 10, o + 16))

\* typeCode.toString(16): no padding.
HexNumber(n) == IF n < 16 THEN <<HexDigit(n)>> ELSE HexByte(n)

guessFilesystem(typeCode) ==
  CASE typeCode = 1 -> Some("FAT12")
    [] typeCode \in {4, 6, 14, 20, 22, 30} -> Some("FAT16")
    [] typeCode \in {11, 12, 27, 28} -> Some("FAT32")
    [] typeCode \in {7, 23} -> Some("NTFS")
    [] typeCode = 131 -> Some("Linux (ext2/3/4)")
    [] typeCode = 239 -> Some("FAT32")
    [] OTHER -> None

\* The Partition of an MBR slot whose end is given: name and guid stay
\* undefined.  type is the table's name, or the pieces of
\* `Unknown (0x${typeCode.toString(16)})`.
MBRPartition(d, o, index, sectorSz, endLBA) ==
  LET bootFlag == d[o + 1]
      typeCode == d[o + 5]
      sizeLBA == fat32_readUint32LE(d, o + 12)
  IN [index |-> index,
      type |-> IF typeCode \in DOMAIN MBR_PARTITION_TYPES
               THEN <<MBR_PARTITION_TYPES[typeCode]>>
               ELSE <<"Unknown (0x", HexNumber(typeCode), ")">>,
      typeCode |-> typeCode,
      startLBA |-> fat32_readUint32LE(d, o + 8),
      endLBA |-> endLBA,
      sizeLBA |-> sizeLBA,
      sizeBytes |-> sizeLBA * sectorSz,
      bootable |-> bootFlag = 128,
      name |-> None,
      guid |-> None,
      filesystem |-> guessFilesystem(typeCode)]

\* As parseMBRPartitionEntry, the end taken as start + size.
parseMBRPartitionEntryExclusiveEnd(d, o, index, sectorSz) ==
  IF o + MbrEntrySize > Len(d) THEN None
  ELSE IF d[o + 5] = 0 THEN None
  ELSE Some(MBRPartition(d, o, index, sectorSz,
         fat32_readUint32LE(d, o + 8) + fat32_readUint32LE(d, o + 12)))

\* null (None) when the slot does not fit or its type code is 0.
parseMBRPartitionEntry(d, o, index, sectorSz) ==
  IF o + MbrEntrySize > Len(d) THEN None
  ELSE IF d[o + 5] = 0 THEN None
  ELSE Some(MBRPartition(d, o, index, sectorSz,
         fat32_readUint32LE(d, o + 8) + fat32_readUint32LE(d, o + 12) - 1))

guessGPTFilesystem(typeGuid) ==
  LET guid == ToLowerCase(typeGuid)
  IN CASE guid = EfiSystemGuid -> Some("FAT32")
       [] guid = BasicDataGuid -> Some("NTFS")
       [] guid = LinuxFilesystemGuid -> Some("ext4")
       [] guid = AppleHfsGuid -> Some("HFS+")
       [] guid = AppleApfsGuid -> Some("APFS")
       [] OTHER -> None

\* TextDecoder('utf-16le'): one code unit per two bytes, U+FFFD for a lone
\* surrogate unit and for an odd last byte (the names of the model hold no
\* surrogate pairs).
Utf16leDecode(bytes) ==
  [i \in 1..((Len(bytes) + 1) \div 2) |->
     IF 2 * i > Len(bytes) THEN 65533
     ELSE LET u == bytes[2 * i - 1] + bytes[2 * i] * 256
          IN IF u >= 55296 /\ u <= 57343 THEN 65533 ELSE u]

RECURSIVE StripTrailingNul(_)
\* name.replace(/\0+$/, '')
StripTrailingNul(s) ==
  IF s # <<>> /\ s[Len(s)] = 0 THEN StripTrailingNul(SubSeq(s, 1, Len(s) - 1))
  ELSE s

\* The Partition of the GPT entry at entryOffset, entry number i from 0.
GPTPartition(d, entryOffset, i, sectorSz) ==
  LET typeGuid == readGuid(d, entryOffset)
      startLBA == Number(fat32_readUint64LE(d, entryOffset + 32))
      endLBA == Number(fat32_readUint64LE(d, entryOffset + 40))
      name == StripTrailingNul(
                Utf16leDecode(Slice(d, entryOffset + 56, entryOffset + 128)))
  IN [index |-> i + 1,
      type |-> IF ToLowerCase(typeGuid) \in DOMAIN GPT_PARTITION_TYPES
               THEN <<GPT_PARTITION_TYPES[ToLowerCase(typeGuid)]>>
               ELSE <<"Unknown (", typeGuid, ")">>,
      typeCode |-> typeGuid,
      startLBA |-> startLBA,
      endLBA |-> endLBA,
      sizeLBA |-> endLBA - startLBA + 1,
      sizeBytes |-> (endLBA - startLBA + 1) * sectorSz,
      bootable |-> FALSE,
      name |-> IF name = <<>> THEN None ELSE Some(name),
      guid |-> Some(readGuid(d, entryOffset + 16)),
      filesystem |-> guessGPTFilesystem(typeGuid)]

RECURSIVE parseGPTEntries(_, _, _, _, _, _, _)
\* The loop of parseGPT from entry i on: stops at the count, at 128 entries
\* and at the first entry that does not fit; skips the zero type GUID.
parseGPTEntries(d, sectorSz, partitionTableOffset, numPartitionEntries, partitionEntrySize, i, partitions) ==
  IF ~(i < numPartitionEntries /\ i < GptMaxEntries) THEN partitions
  ELSE LET entryOffset == partitionTableOffset + i * partitionEntrySize
       IN IF entryOffset + partitionEntrySize > Len(d) THEN partitions
          ELSE parseGPTEntries(d, sectorSz, partitionTableOffset,
                 numPartitionEntries, partitionEntrySize, i + 1,
                 IF readGuid(d, entryOffset) = ZeroGuid THEN partitions
                 ELSE Append(partitions,
                             GPTPartition(d, entryOffset, i, sectorSz)))

EfiPart == <<69, 70, 73, 32, 80, 65, 82, 84>>

PartitionTable(type, sectorSz, partitions, diskGuid) ==
  [type |-> type, sectorSize |-> sectorSz, partitions |-> partitions,
   diskGuid |-> diskGuid]

parseGPT(d, sectorSz) ==
  LET gptHeaderOffset == sectorSz
  IN IF Len(d) < gptHeaderOffset + GptHeaderSize
     THEN PartitionTable("GPT", sectorSz, <<>>, None)
     ELSE IF Utf8Decode(Slice(d, gptHeaderOffset, gptHeaderOffset + 8)) # EfiPart
     THEN PartitionTable("Unknown", sectorSz, <<>>, None)
     ELSE LET partitionEntryLBA ==
                Number(fat32_readUint64LE(d, gptHeaderOffset + 72))
              numPartitionEntries == fat32_readUint32LE(d, gptHeaderOffset + 80)
              partitionEntrySize == fat32_readUint32LE(d, gptHeaderOffset + 84)
          IN PartitionTable("GPT", sectorSz,
               parseGPTEntries(d, sectorSz, partitionEntryLBA * sectorSz,
                 numPartitionEntries, partitionEntrySize, 0, <<>>),
               Some(readGuid(d, gptHeaderOffset + 56)))

RECURSIVE parseMBRSlotsFirstOnly(_, _, _, _)
\* As parseMBRSlots, the protective type looked for in the first slot only.
parseMBRSlotsFirstOnly(d, sectorSz, i, partitions) ==
  IF i >= MbrSlots THEN PartitionTable("MBR", sectorSz, partitions, None)
  ELSE LET partition == parseMBRPartitionEntry(d,
                          MbrTableOffset + i * MbrEntrySize, i + 1, sectorSz)
       IN IF partition = None
          THEN parseMBRSlotsFirstOnly(d, sectorSz, i + 1, partitions)
          ELSE IF i = 0 /\ partition[1].typeCode = ProtectiveType
          THEN parseGPT(d, sectorSz)
          ELSE parseMBRSlotsFirstOnly(d, sectorSz, i + 1,
                                      Append(partitions, partition[1]))

RECURSIVE parseMBRSlots(_, _, _, _)
\* The loop of parseMBR from slot i on (i from 0): a protective slot
\* returns the GPT result, whatever was collected before.
parseMBRSlots(d, sectorSz, i, partitions) ==
  IF i >= MbrSlots THEN PartitionTable("MBR", sectorSz, partitions, None)
  ELSE LET partition == parseMBRPartitionEntry(d,
                          MbrTableOffset + i * MbrEntrySize, i + 1, sectorSz)
       IN IF partition = None
          THEN parseMBRSlots(d, sectorSz, i + 1, partitions)
          ELSE IF partition[1].typeCode = ProtectiveType
          THEN parseGPT(d, sectorSz)
          ELSE parseMBRSlots(d, sectorSz, i + 1,
                             Append(partitions, partition[1]))

parseMBR(d, sectorSz) ==
  IF \/ Len(d) < MbrSize
     \/ d[MbrSignatureOffset + 1] # 85
     \/ d[MbrSignatureOffset + 2] # 170
  THEN PartitionTable("Unknown", sectorSz, <<>>, None)
  ELSE parseMBRSlots(d, sectorSz, 0, <<>>)

parsePartitionTable(d, sectorSz) ==
  IF Len(d) < MbrSize THEN PartitionTable("Unknown", sectorSz, <<>>, None)
  ELSE parseMBR(d, sectorSz)

\* A caller hands a disk buffer to parsePartitionTable.
ParsePartitionTable ==
  /\ ptPc = "call"
  /\ table' = Some(parsePartitionTable(disk, sectorSize))
  /\ ptPc' = "done"
  /\ UNCHANGED <<disk, sectorSize, extracted, outsidePt>>

\* The slice of the disk a partition covers: empty when the partition starts
\* at or after the end of the disk, clipped to the disk otherwise.
extractPartitionData(diskData, partition, sectorSz) ==
  LET startOffset == partition.startLBA * sectorSz
      endOffset == (partition.endLBA + 1) * sectorSz
  IN IF startOffset >= Len(diskData) THEN <<>>
     ELSE Slice(diskData, startOffset, Min(endOffset, Len(diskData)))

\* A caller hands one partition of the table to extractPartitionData, with
\* the sector size the table was parsed under.
ExtractPartitionData ==
  /\ ptPc = "done"
  /\ \E j \in 1..Len(table[1].partitions) :
       extracted' = Some([partition |-> j,
                          bytes |-> extractPartitionData(disk,
                                      table[1].partitions[j], sectorSize)])
  /\ ptPc' = "extracted"
  /\ UNCHANGED <<disk, sectorSize, table, outsidePt>>

(***************************************************************************)
(* The disk buffers handed to parsePartitionTable.                         *)
(***************************************************************************)
U32Bytes(n) == [i \in 1..4 |-> (n \div (256 ^ (i - 1))) % 256]

\* One 16-byte MBR slot: boot flag, CHS, type, CHS, start u32le, size u32le.
Slot(bootFlag, typeCode, startLBA, sizeLBA) ==
  <<bootFlag, 0, 0, 0, typeCode, 0, 0, 0>> \o U32Bytes(startLBA) \o U32Bytes(sizeLBA)

EmptySlot == Slot(0, 0, 0, 0)
Fat32Slot == Slot(128, 12, 2048, 66051)
ProtectiveSlot == Slot(0, ProtectiveType, 1, 100)
\* A FAT32 slot of one sector, the second of the disk.
SmallFat32Slot == Slot(128, 12, 1, 1)

\* An empty slot, a type-0 slot with the other fields set, a bootable FAT32
\* slot, a Linux slot of size 0, a slot of unknown type with a boot flag
\* that is neither 0x00 nor 0x80, and the protective slot.
SlotKinds ==
  {EmptySlot, Slot(128, 0, 7, 9), Fat32Slot, Slot(0, 131, 5, 0),
   Slot(1, 127, 1, 1), ProtectiveSlot}

BootSignature == <<85, 170>>

\* The first sector: boot code, four slots, the two signature bytes.
MbrSector(slots, signature) ==
  Zeros(MbrTableOffset) \o slots[1] \o slots[2] \o slots[3] \o slots[4]
    \o signature

\* The GUID 00112233-4455-6677-8899-aabbccddeeff as stored on disk.
SomeGuidBytes ==
  <<51, 34, 17, 0, 85, 68, 119, 102, 136, 153, 170, 187, 204, 221, 238, 255>>
EfiSystemGuidBytes ==
  <<40, 115, 42, 193, 31, 248, 210, 17, 186, 75, 0, 160, 201, 62, 201, 59>>
LinuxFilesystemGuidBytes ==
  <<175, 61, 198, 15, 131, 132, 114, 71, 142, 121, 61, 105, 216, 71, 125, 228>>

\* The sector of the GPT header: signature, disk GUID at +56, entry array
\* LBA at +72, entry count at +80, entry size at +84.
GptHeaderSector(signature, partitionEntryLBA, numPartitionEntries, partitionEntrySize) ==
  signature \o Zeros(48) \o SomeGuidBytes \o U64Bytes(partitionEntryLBA)
    \o U32Bytes(numPartitionEntries) \o U32Bytes(partitionEntrySize)
    \o Zeros(DefaultSectorSize - 88)

\* One 128-byte entry: type GUID, partition GUID, start, end, attributes,
\* the UTF-16LE name.
GptEntry(typeGuidBytes, startLBA, endLBA, nameBytes) ==
  typeGuidBytes \o SomeGuidBytes \o U64Bytes(startLBA) \o U64Bytes(endLBA)
    \o Zeros(8) \o nameBytes \o Zeros(72 - Len(nameBytes))

\* An unused entry, an EFI system partition named "EFI", a Linux partition
\* whose end is before its start, a partition of unknown type of one sector
\* (the one the entry array starts in).
GptEntryKinds ==
  {GptEntry(Zeros(16), 34, 40, <<>>),
   GptEntry(EfiSystemGuidBytes, 34, 100, <<69, 0, 70, 0, 73, 0>>),
   GptEntry(LinuxFilesystemGuidBytes, 200, 100, <<>>),
   GptEntry(SomeGuidBytes, 2, 2, <<65, 0>>)}

GptEntryArrays == UNION {[1..n -> GptEntryKinds] : n \in 0..MaxGptEntries}

\* What follows the first sector: nothing, a header cut short, a header
\* with a wrong signature, and headers with their entry arrays; the count
\* of the header is the array's length, or more than the disk holds.
GptTails ==
  {<<>>, SubSeq(GptHeaderSector(EfiPart, 2, 1, 128), 1, 50),
   GptHeaderSector(<<69, 70, 73, 32, 80, 65, 82, 32>>, 2, 1, 128)
     \o GptEntry(EfiSystemGuidBytes, 34, 100, <<>>)}
    \cup {GptHeaderSector(EfiPart, 2, Len(a) + extra, 128) \o Concat(a) :
            a \in GptEntryArrays, extra \in {0, 200}}

\* Disks of one sector: every combination of slots under the boot
\* signature, some under a wrong signature, and buffers that are too short.
MbrDisks ==
  {MbrSector(s, BootSignature) : s \in [1..MbrSlots -> SlotKinds]}
    \cup {MbrSector(s, sig) :
            s \in [1..MbrSlots -> {Fat32Slot, ProtectiveSlot}],
            sig \in {<<85, 0>>, <<0, 170>>, <<170, 85>>}}
    \cup {<<>>, SubSeq(MbrSector([i \in 1..MbrSlots |-> Fat32Slot], BootSignature), 1, 511)}

\* Disks with more than one sector: the protective slot in any position or
\* absent, with and without the boot signature.
GptDisks ==
  {MbrSector(s, sig) \o t :
     s \in [1..MbrSlots -> {EmptySlot, SmallFat32Slot, ProtectiveSlot}],
     sig \in {BootSignature, <<85, 0>>},
     t \in GptTails \ {<<>>}}

InputDisks == MbrDisks \cup GptDisks

(***************************************************************************)
(* fat32-parser.ts: the FAT filesystem of a partition image.               *)
(***************************************************************************)
\* Sizes and caps of the FAT parser.
BootSectorSize == 512
DirEntrySize == 32
MaxChainIterations == 10000
MaxDepth == 10
LfnAttr == 15
Fat12Limit == 4085
Fat16Limit == 65525
Fat32EndOfChain == 268435448
Fat16EndOfChain == 65528
Fat12EndOfChain == 4088
Fat32Mask == 268435455

\* readUint16LE: 0 when the two bytes do not fit.
readUint16LE(d, o) ==
  IF o + 2 > Len(d) THEN 0 ELSE d[o + 1] + d[o + 2] * 256

\* The characters of the bytes 0x80..0x9F under TextDecoder('ascii'), which
\* is the windows-1252 decoder.
Windows1252High ==
  <<8364, 129, 8218, 402, 8222, 8230, 8224, 8225, 710, 8240, 352, 8249, 338,
    141, 381, 143, 144, 8216, 8217, 8220, 8221, 8226, 8211, 8212, 732, 8482,
    353, 8250, 339, 157, 382, 376>>

\* new TextDecoder('ascii').decode(bytes)
AsciiDecode(bytes) ==
  [i \in 1..Len(bytes) |->
     IF bytes[i] >= 128 /\ bytes[i] <= 159 THEN Windows1252High[bytes[i] - 127]
     ELSE bytes[i]]

\* null (None) unless the image has 512 bytes and 0x55 0xAA at 510/511; the
\* FAT32 fields are read when the 16-bit sectors-per-FAT is 0.
parseBootSector(d) ==
  IF Len(d) < BootSectorSize THEN None
  ELSE IF d[511] # 85 \/ d[512] # 170 THEN None
  ELSE LET totalSectors16 == readUint16LE(d, 19)
           sectorsPerFAT16 == readUint16LE(d, 22)
           fat32 == sectorsPerFAT16 = 0
       IN Some([bytesPerSector |-> readUint16LE(d, 11),
                sectorsPerCluster |-> d[14],
                reservedSectors |-> readUint16LE(d, 14),
                numFATs |-> d[17],
                rootEntryCount |-> readUint16LE(d, 17),
                totalSectors |-> IF totalSectors16 = 0
                                 THEN fat32_readUint32LE(d, 32)
                                 ELSE totalSectors16,
                sectorsPerFAT |-> IF fat32 THEN fat32_readUint32LE(d, 36)
                                  ELSE sectorsPerFAT16,
                rootCluster |-> IF fat32 THEN fat32_readUint32LE(d, 44) ELSE 0,
                volumeLabel |-> IF fat32 THEN Trim(AsciiDecode(Slice(d, 71, 82)))
                                ELSE Trim(AsciiDecode(Slice(d, 43, 54))),
                fsType |-> IF fat32 THEN Trim(AsciiDecode(Slice(d, 82, 90)))
                           ELSE Trim(AsciiDecode(Slice(d, 54, 62)))])

\* Math.ceil((bs.rootEntryCount * 32) / bs.bytesPerSector), bytesPerSector > 0
RootDirSectors(bs) ==
  (bs.rootEntryCount * DirEntrySize + bs.bytesPerSector - 1) \div bs.bytesPerSector

\* The variant by the count of clusters.  With bytesPerSector 0 the root
\* directory sectors are Infinity (or NaN for an empty root), and with
\* sectorsPerCluster 0 the count is an infinity or NaN: -Infinity is below
\* every limit (FAT12), Infinity and NaN are below none (FAT32).
determineFATType(bs) ==
  IF bs.bytesPerSector = 0
  THEN IF bs.rootEntryCount > 0 THEN "FAT12" ELSE "FAT32"
  ELSE LET dataSectors == bs.totalSectors - bs.reservedSectors
                            - bs.numFATs * bs.sectorsPerFAT - RootDirSectors(bs)
       IN IF bs.sectorsPerCluster = 0
          THEN IF dataSectors < 0 THEN "FAT12" ELSE "FAT32"
          ELSE LET clusterCount == dataSectors \div bs.sectorsPerCluster
               IN IF clusterCount < Fat12Limit THEN "FAT12"
                  ELSE IF clusterCount < Fat16Limit THEN "FAT16"
                  ELSE "FAT32"

\* The offsets of the 13 UTF-16 characters of a long-name slot.
LfnCharOffsets == <<1, 3, 5, 7, 9, 14, 16, 18, 20, 22, 24, 28, 30>>

RECURSIVE LfnChars(_, _, _)
\* The characters of the slot at off from the k-th on, up to the first
\* 0x0000 or 0xFFFF.
LfnChars(d, off, k) ==
  IF k > Len(LfnCharOffsets) THEN <<>>
  ELSE LET char == readUint16LE(d, off + LfnCharOffsets[k])
       IN IF char = 0 \/ char = 65535 THEN <<>>
          ELSE <<char>> \o LfnChars(d, off, k + 1)

\* A plausible slip of parseDirectoryEntry: the long-name slots are joined
\* in the order they were met, not by ordinal.
ArrayAppend(arr, index, s) == IF index < 0 THEN arr ELSE Append(arr, s)

\* longNameBuffer[index] = s on a JavaScript array, index from 0: the array
\* grows to hold the index, the holes read as the empty string; a negative
\* index sets no element.
ArraySet(arr, index, s) ==
  IF index < 0 THEN arr
  ELSE [i \in 1..Max(Len(arr), index + 1) |->
          IF i = index + 1 THEN s
          ELSE IF i <= Len(arr) THEN arr[i] ELSE <<>>]

\* (clusterHigh << 16) | clusterLow, a signed 32-bit number
ClusterNumber(clusterHigh, clusterLow) ==
  IF clusterHigh >= 32768 THEN (clusterHigh - 65536) * 65536 + clusterLow
  ELSE clusterHigh * 65536 + clusterLow

\* The short entry at off, as a FATFileEntry of the given name, without
\* children.
FileEntry(d, off, shortName, extension, fullName, parentPath) ==
  LET attr == d[off + 12]
  IN [name |-> fullName,
      shortName |-> shortName,
      extension |-> extension,
      fullName |-> fullName,
      isDirectory |-> (attr \div 16) % 2 = 1,
      isHidden |-> (attr \div 2) % 2 = 1,
      isSystem |-> (attr \div 4) % 2 = 1,
      size |-> fat32_readUint32LE(d, off + 28),
      cluster |-> ClusterNumber(readUint16LE(d, off + 20),
                                readUint16LE(d, off + 26)),
      children |-> None,
      path |-> IF parentPath # <<>> THEN parentPath \o <<47>> \o fullName
               ELSE fullName]

\* One 32-byte slot of a directory: the entry emitted (None when there is
\* none), whether the directory ends here, and the long-name buffer after.
parseDirectoryEntry(d, off, nameBuffer, parentPath) ==
  IF off + DirEntrySize > Len(d)
  THEN [entry |-> None, isEnd |-> TRUE, buffer |-> nameBuffer]
  ELSE IF d[off + 1] = 0
  THEN [entry |-> None, isEnd |-> TRUE, buffer |-> nameBuffer]
  ELSE IF d[off + 1] = 229
  THEN [entry |-> None, isEnd |-> FALSE, buffer |-> nameBuffer]
  ELSE IF d[off + 12] % 16 = LfnAttr
  THEN [entry |-> None, isEnd |-> FALSE,
        buffer |-> ArraySet(nameBuffer, (d[off + 1] % 64) - 1,
                            LfnChars(d, off, 1))]
  ELSE LET attr == d[off + 12]
           shortNameBytes == Slice(d, off, off + 8)
           trimmed == Trim(AsciiDecode(shortNameBytes))
           shortName == IF shortNameBytes[1] = 5
                        THEN <<229>> \o Slice(trimmed, 1, Len(trimmed))
                        ELSE trimmed
           extension == Trim(AsciiDecode(Slice(d, off + 8, off + 11)))
           isDirectory == (attr \div 16) % 2 = 1
           isVolumeLabel == (attr \div 8) % 2 = 1
           isDotEntry == shortName = <<46>> \/ shortName = <<46, 46>>
           useLongName == Len(nameBuffer) > 0 /\ ~isDotEntry
           fullName == IF useLongName THEN Concat(nameBuffer)
                       ELSE IF extension # <<>> /\ ~isDotEntry
                       THEN shortName \o <<46>> \o extension
                       ELSE shortName
       IN IF isVolumeLabel /\ ~isDirectory
          THEN [entry |-> None, isEnd |-> FALSE, buffer |-> nameBuffer]
          ELSE [entry |-> IF isDotEntry THEN None
                          ELSE Some(FileEntry(d, off, shortName, extension,
                                              fullName, parentPath)),
                isEnd |-> FALSE,
                buffer |-> IF useLongName THEN <<>> ELSE nameBuffer]

RECURSIVE parseDirectoryFrom(_, _, _, _, _)
\* The loop of parseDirectory from off on.
parseDirectoryFrom(dirBytes, off, nameBuffer, entries, parentPath) ==
  IF ~(off < Len(dirBytes)) THEN entries
  ELSE LET r == parseDirectoryEntry(dirBytes, off, nameBuffer, parentPath)
       IN IF r.isEnd THEN entries
          ELSE parseDirectoryFrom(dirBytes, off + DirEntrySize, r.buffer,
                                  entries \o r.entry, parentPath)

parseDirectory(dirBytes, parentPath) ==
  parseDirectoryFrom(dirBytes, 0, <<>>, <<>>, parentPath)

\* The next cluster of the chain, the end-of-chain value of the variant
\* when the FAT holds no entry for the cluster.
getNextCluster(fat, cluster, fatType) ==
  IF fatType = "FAT32"
  THEN IF cluster + 1 > Len(fat) \div 4 THEN Fat32Mask
       ELSE LET o == cluster * 4
            IN fat[o + 1] + fat[o + 2] * 256 + fat[o + 3] * 65536
                 + (fat[o + 4] % 16) * 16777216
  ELSE IF fatType = "FAT16"
  THEN IF cluster + 1 > Len(fat) \div 2 THEN 65535
       ELSE readUint16LE(fat, cluster * 2)
  ELSE LET o == cluster + cluster \div 2
       IN IF o + 2 > Len(fat) THEN 4095
          ELSE IF cluster % 2 = 0 THEN readUint16LE(fat, o) % 4096
               ELSE readUint16LE(fat, o) \div 16

isEndOfChain(cluster, fatType) ==
  IF fatType = "FAT32" THEN cluster >= Fat32EndOfChain
  ELSE IF fatType = "FAT16" THEN cluster >= Fat16EndOfChain
  ELSE cluster >= Fat12EndOfChain

\* readClusterChain: the size of a cluster and the offset of the first.
ClusterSize(bs) == bs.sectorsPerCluster * bs.bytesPerSector
FirstClusterOffset(bs) ==
  (bs.reservedSectors + bs.numFATs * bs.sectorsPerFAT + RootDirSectors(bs))
    * bs.bytesPerSector

\* clusterOffset + clusterSize <= data.length.  With bytesPerSector 0 the
\* offset is NaN and the test fails.
ClusterFits(d, bs, cluster) ==
  /\ bs.bytesPerSector # 0
  /\ FirstClusterOffset(bs) + ClusterSize(bs) <= Len(d)
  /\ \/ ClusterSize(bs) = 0
     \/ cluster - 2 <= (Len(d) - FirstClusterOffset(bs) - ClusterSize(bs)) \div ClusterSize(bs)

ClusterOffset(bs, cluster) == FirstClusterOffset(bs) + (cluster - 2) * ClusterSize(bs)

\* A plausible slip: the loop of readClusterChain without its step guard.
ChainContinuesUnguarded(cluster, iterations, fatType) ==
  cluster >= 2 /\ ~isEndOfChain(cluster, fatType)

\* The while condition of readClusterChain.
ChainContinues(cluster, iterations, fatType) ==
  cluster >= 2 /\ ~isEndOfChain(cluster, fatType) /\ iterations < MaxChainIterations

\* The clusters readClusterChain has pushed are kept as runs: the offset of
\* a cluster in the image and the number of times it was pushed in a row.
PushCluster(runs, clusterOffset) ==
  IF runs # <<>> /\ runs[Len(runs)].clusterOffset = clusterOffset
  THEN [runs EXCEPT ![Len(runs)].count = @ + 1]
  ELSE Append(runs, [clusterOffset |-> clusterOffset, count |-> 1])

RECURSIVE ClusterCount(_)
\* clusters.length
ClusterCount(runs) ==
  IF runs = <<>> THEN 0 ELSE runs[1].count + ClusterCount(Tail(runs))

\* The offsets of the clusters pushed, in the order of the pushes.
ClusterOffsets(runs) ==
  Concat([k \in 1..Len(runs) |-> [i \in 1..runs[k].count |-> runs[k].clusterOffset]])

\* The buffer readClusterChain returns: the clusters pushed, each named by
\* its offset in the image and each ClusterSize long, one after the other.
ChainBytes(d, bs, clusterOffsets) ==
  [i \in 1..(Len(clusterOffsets) * ClusterSize(bs)) |->
     d[clusterOffsets[(i - 1) \div ClusterSize(bs) + 1] + ((i - 1) % ClusterSize(bs)) + 1]]

\* The result parseFAT starts from.
InitialFatResult ==
  [valid |-> FALSE, fatType |-> "Unknown", bootSector |-> None,
   rootEntries |-> <<>>, errors |-> <<>>]

\* One pass of the loop of parseDirectory: the loop ends at the end of the
\* data and at the end marker; otherwise the slot is decoded, its entry (if
\* any) pushed, and the loop moves on by 32 bytes.
DecodeSlot ==
  /\ dirPc = "loop"
  /\ IF dirOffset < Len(dirData)
     THEN LET r == parseDirectoryEntry(dirData, dirOffset, longNameBuffer, dirPath)
          IN IF r.isEnd
             THEN /\ dirPc' = "done"
                  /\ UNCHANGED <<dirOffset, longNameBuffer, dirEntries>>
             ELSE /\ dirEntries' = dirEntries \o r.entry
                  /\ longNameBuffer' = r.buffer
                  /\ dirOffset' = dirOffset + DirEntrySize
                  /\ dirPc' = "loop"
     ELSE /\ dirPc' = "done"
          /\ UNCHANGED <<dirOffset, longNameBuffer, dirEntries>>
  /\ UNCHANGED <<dirData, dirPath, outsideDir>>

(***************************************************************************)
(* The directories handed to parseDirectory.                               *)
(***************************************************************************)
U16Bytes(n) == <<n % 256, n \div 256>>

\* The 13 characters of a long-name slot: the string, 0x0000, then 0xFFFF.
LfnPadded(chars) ==
  [k \in 1..13 |-> IF k <= Len(chars) THEN chars[k]
                   ELSE IF k = Len(chars) + 1 THEN 0 ELSE 65535]

\* A long-name slot: sequence byte, 5 characters, attribute 0x0F, type,
\* checksum, 6 characters, cluster 0, 2 characters.
LfnSlot(sequenceByte, chars) ==
  LET c == LfnPadded(chars)
  IN <<sequenceByte>>
       \o U16Bytes(c[1]) \o U16Bytes(c[2]) \o U16Bytes(c[3]) \o U16Bytes(c[4])
       \o U16Bytes(c[5]) \o <<15, 0, 0>>
       \o U16Bytes(c[6]) \o U16Bytes(c[7]) \o U16Bytes(c[8]) \o U16Bytes(c[9])
       \o U16Bytes(c[10]) \o U16Bytes(c[11]) \o <<0, 0>>
       \o U16Bytes(c[12]) \o U16Bytes(c[13])

\* A short entry: 8 name bytes, 3 extension bytes, attribute, 8 bytes of
\* times, cluster high, 4 bytes of times, cluster low, size.
ShortSlot(nameBytes, extBytes, attr, cluster, size) ==
  nameBytes \o extBytes \o <<attr>> \o Zeros(8) \o U16Bytes(cluster \div 65536)
    \o Zeros(4) \o U16Bytes(cluster % 65536) \o U32Bytes(size)

Pad(chars, n) == chars \o [i \in 1..(n - Len(chars)) |-> 32]

\* "FILE.TXT", a file of 300 bytes at cluster 65539
FileSlot == ShortSlot(Pad(<<70, 73, 76, 69>>, 8), <<84, 88, 84>>, 32, 65539, 300)
\* "SUB", a hidden directory at cluster 3
SubDirSlot == ShortSlot(Pad(<<83, 85, 66>>, 8), Pad(<<>>, 3), 18, 3, 0)
DotSlot == ShortSlot(Pad(<<46>>, 8), Pad(<<>>, 3), 16, 2, 0)
DotDotSlot == ShortSlot(Pad(<<46, 46>>, 8), Pad(<<>>, 3), 16, 0, 0)
\* a deleted entry, a volume label, an entry whose name starts with 0x05
DeletedSlot == ShortSlot(<<229>> \o Pad(<<79, 76, 68>>, 7), <<84, 88, 84>>, 32, 9, 1)
LabelSlot == ShortSlot(Pad(<<86, 79, 76>>, 8), Pad(<<>>, 3), 8, 0, 0)
KanjiSlot == ShortSlot(<<5>> \o Pad(<<65>>, 7), Pad(<<66>>, 3), 4, 4, 7)
EndSlot == Zeros(32)

\* Long-name slots of ordinals 1, 2 and 3 ("ab", "cd" and the 13
\* characters "0123456789xyz"), the last-slot flag 0x40 on some, and a slot
\* of ordinal 0.
LfnSlots ==
  {LfnSlot(1, <<97, 98>>), LfnSlot(65, <<97, 98>>), LfnSlot(2, <<99, 100>>),
   LfnSlot(66, <<99, 100>>),
   LfnSlot(67, <<48, 49, 50, 51, 52, 53, 54, 55, 56, 57, 120, 121, 122>>),
   LfnSlot(64, <<122>>)}

DirSlotKinds ==
  LfnSlots \cup {FileSlot, SubDirSlot, DotSlot, DotDotSlot, DeletedSlot,
                 LabelSlot, KanjiSlot, EndSlot}

\* Every directory of up to MaxDirSlots slots, and one cut in the middle
\* of its last slot.
InputDirectories ==
  UNION {{Concat(s) : s \in [1..n -> DirSlotKinds]} : n \in 0..MaxDirSlots}
    \cup {SubSeq(FileSlot \o SubDirSlot, 1, 40)}

(***************************************************************************)
(* parseFAT as a machine: parseFAT up to its first directory, one action   *)
(* per pass of the loop of readClusterChain, one for its return and the    *)
(* listing of the directory read, one per pass of the loop over the        *)
(* entries of a directory, one per return of parseDirectoryTree.           *)
(***************************************************************************)
InvalidBootSectorError == "Invalid FAT boot sector"
FatBeyondImageError == "FAT extends beyond disk image"
RootBeyondImageError == "Root directory extends beyond disk image"

\* parseFAT: the first FAT and, for FAT12/16, the fixed root directory.
FatOffset(bs) == bs.reservedSectors * bs.bytesPerSector
FatSize(bs) == bs.sectorsPerFAT * bs.bytesPerSector
FatTable(d, bs) == Slice(d, FatOffset(bs), FatOffset(bs) + FatSize(bs))
RootDirOffset(bs) ==
  (bs.reservedSectors + bs.numFATs * bs.sectorsPerFAT) * bs.bytesPerSector
RootDirSize(bs) == bs.rootEntryCount * DirEntrySize

\* A plausible slip of parseFAT: a failure after the boot sector clears
\* the valid flag.
RecordErrorInvalidates(r, message) ==
  [r EXCEPT !.errors = Append(@, message), !.valid = FALSE]

\* result.errors.push(message)
RecordError(r, message) == [r EXCEPT !.errors = Append(@, message)]

\* A plausible slip of parseDirectoryTree: no depth cap.
DepthExceededNever(depth) == FALSE

\* The depth cap of parseDirectoryTree.
DepthExceeded(depth) == depth > MaxDepth

\* readClusterChain as it starts, for parseDirectoryTree at the depth.
StartChain(startCluster, parentPath, depth) ==
  [cluster |-> startCluster, iterations |-> 0, clusters |-> <<>>,
   parentPath |-> parentPath, depth |-> depth]

NoChain == StartChain(0, <<>>, 0)

\* The loop over the entries of a directory as it starts; the directories
\* among them are walked by parseDirectoryTree at childDepth.
Frame(entries, childDepth) ==
  [entries |-> entries, index |-> 1, childDepth |-> childDepth]

ParseFAT ==
  /\ fatPc = "start"
  /\ LET bootSector == parseBootSector(fatData)
     IN IF bootSector = None
        THEN /\ fatResult' = RecordError(fatResult, InvalidBootSectorError)
             /\ fatPc' = "done"
             /\ UNCHANGED <<fatStack, fatChain>>
        ELSE LET bs == bootSector[1]
                 fatType == determineFATType(bs)
                 accepted == [fatResult EXCEPT !.bootSector = bootSector,
                                               !.fatType = fatType,
                                               !.valid = TRUE]
             IN IF FatOffset(bs) + FatSize(bs) > Len(fatData)
                THEN /\ fatResult' = RecordError(accepted, FatBeyondImageError)
                     /\ fatPc' = "done"
                     /\ UNCHANGED <<fatStack, fatChain>>
                ELSE IF fatType = "FAT32"
                THEN /\ fatResult' = accepted
                     /\ IF DepthExceeded(0)
                        THEN fatPc' = "done" /\ UNCHANGED fatChain
                        ELSE /\ fatPc' = "chain"
                             /\ fatChain' = StartChain(bs.rootCluster, <<>>, 0)
                     /\ UNCHANGED fatStack
                ELSE IF RootDirOffset(bs) + RootDirSize(bs) > Len(fatData)
                THEN /\ fatResult' = RecordError(accepted, RootBeyondImageError)
                     /\ fatPc' = "done"
                     /\ UNCHANGED <<fatStack, fatChain>>
                ELSE /\ fatResult' = accepted
                     /\ fatStack' =
                          <<Frame(parseDirectory(
                                    Slice(fatData, RootDirOffset(bs),
                                          RootDirOffset(bs) + RootDirSize(bs)),
                                    <<>>), 0)>>
                     /\ fatPc' = "walk"
                     /\ UNCHANGED fatChain
  /\ UNCHANGED <<fatData, outsideFat>>

\* One pass of the loop of readClusterChain.
ReadCluster ==
  /\ fatPc = "chain"
  /\ ChainContinues(fatChain.cluster, fatChain.iterations, fatResult.fatType)
  /\ LET bs == fatResult.bootSector[1]
     IN fatChain' =
          [fatChain EXCEPT
             !.clusters = IF ClusterFits(fatData, bs, fatChain.cluster)
                          THEN PushCluster(@, ClusterOffset(bs, fatChain.cluster))
                          ELSE @,
             !.cluster = getNextCluster(FatTable(fatData, bs), @,
                                        fatResult.fatType),
             !.iterations = @ + 1]
  /\ UNCHANGED <<fatData, fatPc, fatResult, fatStack, outsideFat>>

\* The loop of readClusterChain is over: the clusters are joined, the
\* directory is listed and the loop over its entries starts.
ListDirectory ==
  /\ fatPc = "chain"
  /\ ~ChainContinues(fatChain.cluster, fatChain.iterations, fatResult.fatType)
  /\ LET bs == fatResult.bootSector[1]
         chainData == ChainBytes(fatData, bs, ClusterOffsets(fatChain.clusters))
     IN fatStack' = Append(fatStack,
                           Frame(parseDirectory(chainData, fatChain.parentPath),
                                 fatChain.depth + 1))
  /\ fatPc' = "walk"
  /\ UNCHANGED <<fatData, fatResult, fatChain, outsideFat>>

\* One pass of the loop over the entries of the directory on top: a
\* directory entry with a cluster is walked, beyond the depth cap its
\* children are the empty list at once.
VisitEntry ==
  /\ fatPc = "walk"
  /\ LET top == fatStack[Len(fatStack)]
     IN /\ top.index <= Len(top.entries)
        /\ LET entry == top.entries[top.index]
           IN IF entry.isDirectory /\ entry.cluster >= 2
              THEN IF DepthExceeded(top.childDepth)
                   THEN /\ fatStack' =
                             [fatStack EXCEPT
                                ![Len(fatStack)].entries[top.index].children = Some(<<>>),
                                ![Len(fatStack)].index = @ + 1]
                        /\ UNCHANGED <<fatPc, fatChain>>
                   ELSE /\ fatChain' = StartChain(entry.cluster, entry.path,
                                                  top.childDepth)
                        /\ fatPc' = "chain"
                        /\ UNCHANGED fatStack
              ELSE /\ fatStack' = [fatStack EXCEPT ![Len(fatStack)].index = @ + 1]
                   /\ UNCHANGED <<fatPc, fatChain>>
  /\ UNCHANGED <<fatData, fatResult, outsideFat>>

\* The loop over the entries of the directory on top is over: its entries
\* are the children of the entry walked in the directory below, or the
\* root entries of the result.
ReturnEntries ==
  /\ fatPc = "walk"
  /\ LET h == Len(fatStack)
         top == fatStack[h]
     IN /\ top.index > Len(top.entries)
        /\ IF h = 1
           THEN /\ fatResult' = [fatResult EXCEPT !.rootEntries = top.entries]
                /\ fatStack' = <<>>
                /\ fatPc' = "done"
           ELSE /\ fatStack' =
                     [SubSeq(fatStack, 1, h - 1) EXCEPT
                        ![h - 1].entries[fatStack[h - 1].index].children = Some(top.entries),
                        ![h - 1].index = @ + 1]
                /\ UNCHANGED <<fatPc, fatResult>>
  /\ UNCHANGED <<fatData, fatChain, outsideFat>>

(***************************************************************************)
(* The input images: sectors of 64 bytes, one sector per cluster (two      *)
(* directory slots), 8 reserved sectors, one FAT of one sector, and        *)
(* MaxClusters clusters of data from cluster 2 on.                         *)
(***************************************************************************)
\* A boot sector: the 16-bit fields of the BPB, the 32-bit total, the
\* FAT32 sectors per FAT and root cluster, the signature.
BootSector(rootEntryCount, totalSectors16, sectorsPerFAT16, totalSectors32, sectorsPerFAT32, rootCluster) ==
  Zeros(11) \o U16Bytes(64) \o <<1>> \o U16Bytes(8) \o <<1>>
    \o U16Bytes(rootEntryCount) \o U16Bytes(totalSectors16) \o <<248>>
    \o U16Bytes(sectorsPerFAT16) \o Zeros(8) \o U32Bytes(totalSectors32)
    \o U32Bytes(sectorsPerFAT32) \o Zeros(4) \o U32Bytes(rootCluster)
    \o Zeros(462) \o BootSignature

\* 70000 sectors: FAT32, the root at the cluster.
Fat32BootSector(rootCluster) == BootSector(0, 0, 0, 70000, 1, rootCluster)
\* 5000 sectors: FAT16; 100 sectors: FAT12; a fixed root of two slots.
Fat16BootSector == BootSector(2, 5000, 1, 0, 0, 0)
Fat12BootSector == BootSector(2, 100, 1, 0, 0, 0)

ClusterNumbers == 2..(MaxClusters + 1)

\* The FAT sector of each variant: the two reserved entries, then the next
\* cluster of every cluster of next, the others free.
Fat32Sector(next) ==
  LET e == [c \in 0..15 |-> IF c < 2 THEN Fat32Mask
                            ELSE IF c \in DOMAIN next THEN next[c] ELSE 0]
  IN Concat([k \in 1..16 |-> U32Bytes(e[k - 1])])
Fat16Sector(next) ==
  LET e == [c \in 0..31 |-> IF c < 2 THEN 65535
                            ELSE IF c \in DOMAIN next THEN next[c] ELSE 0]
  IN Concat([k \in 1..32 |-> U16Bytes(e[k - 1])])
Fat12Sector(next) ==
  LET e == [c \in 0..41 |-> IF c < 2 THEN 4095
                            ELSE IF c \in DOMAIN next THEN next[c] ELSE 0]
  IN Concat([k \in 1..21 |->
               <<e[2 * k - 2] % 256,
                 e[2 * k - 2] \div 256 + (e[2 * k - 1] % 16) * 16,
                 e[2 * k - 1] \div 16>>]) \o <<0>>

\* The directory "D<t>" at cluster t.
SubDirTo(t) == ShortSlot(Pad(<<68, 48 + t>>, 8), Pad(<<>>, 3), 16, t, 0)

\* The clusters of data, one after the other.
DataArea(contents) == Concat([k \in 1..MaxClusters |-> contents[k + 1]])

\* Trees: the directories of a cluster lie at later clusters, and the next
\* cluster of a chain is the one behind it (behind the last: outside the
\* image) or none.
TreeContents(c) ==
  {FileSlot \o EndSlot, LfnSlot(65, <<97, 98>>) \o FileSlot}
    \cup {SubDirTo(t) \o EndSlot : t \in (c + 1)..(MaxClusters + 1)}
    \cup {FileSlot \o SubDirTo(t) : t \in (c + 1)..(MaxClusters + 1)}
    \cup {SubDirTo(t) \o SubDirTo(u) : t \in (c + 1)..(MaxClusters + 1),
                                       u \in (c + 2)..(MaxClusters + 1)}
TreeAreas ==
  {DataArea(f) : f \in {g \in [ClusterNumbers -> UNION {TreeContents(c) : c \in ClusterNumbers}] :
                          \A c \in ClusterNumbers : g[c] \in TreeContents(c)}}
TreeNexts ==
  {f \in [ClusterNumbers -> {Fat32Mask} \cup 3..(MaxClusters + 2)] :
     \A c \in ClusterNumbers : f[c] \in {Fat32Mask, c + 1}}
TreeImages ==
  {Fat32BootSector(2) \o Fat32Sector(n) \o a : n \in TreeNexts, a \in TreeAreas}
    \cup {Fat16BootSector \o Fat16Sector([c \in ClusterNumbers |-> 65535])
            \o r \o a : r \in TreeContents(1), a \in TreeAreas}

\* Directory cycles: every cluster holds one directory entry, of any
\* cluster, its own and the earlier ones included; every chain is one
\* cluster long.
CycleAreas ==
  {DataArea(f) : f \in [ClusterNumbers -> {SubDirTo(t) \o EndSlot : t \in ClusterNumbers}]}
    \cup {DataArea([c \in ClusterNumbers |-> FileSlot \o SubDirTo(t)]) : t \in ClusterNumbers}
CycleImages ==
  {Fat32BootSector(2) \o Fat32Sector([c \in ClusterNumbers |-> Fat32Mask]) \o a : a \in CycleAreas}
    \cup {Fat16BootSector \o Fat16Sector([c \in ClusterNumbers |-> 65535])
            \o SubDirTo(2) \o EndSlot \o a : a \in CycleAreas}
    \cup {Fat12BootSector \o Fat12Sector([c \in ClusterNumbers |-> 4095])
            \o SubDirTo(3) \o EndSlot \o a : a \in CycleAreas}

\* Looping chains, over directories without cycles: FAT32 with the root
\* at cluster 2 and cluster 2 its own next; FAT16 with a directory at
\* cluster 2, its own next; FAT12 with a directory on the chain 9, 10, 9,
\* ... outside the image.
FilesOnly == DataArea([c \in ClusterNumbers |-> FileSlot \o EndSlot])
LoopImages ==
  {Fat32BootSector(2) \o Fat32Sector((2 :> 2)) \o FilesOnly,
   Fat16BootSector \o Fat16Sector((2 :> 2))
     \o SubDirTo(2) \o EndSlot \o FilesOnly,
   Fat12BootSector \o Fat12Sector((9 :> 10) @@ (10 :> 9))
     \o SubDirTo(9) \o EndSlot \o FilesOnly}

\* A plain FAT32 image of files, cut or damaged: one byte short of the
\* boot sector, without the signature, without the FAT, with a FAT of 0
\* sectors per cluster and per FAT; FAT16 without its root directory, and
\* with half of it.
PlainFat32 ==
  Fat32BootSector(2) \o Fat32Sector([c \in ClusterNumbers |-> Fat32Mask]) \o FilesOnly
PlainFat16 ==
  Fat16BootSector \o Fat16Sector([c \in ClusterNumbers |-> 65535])
    \o FileSlot \o EndSlot \o FilesOnly
DamagedImages ==
  {<<>>, SubSeq(PlainFat32, 1, 511),
   [PlainFat32 EXCEPT ![511] = 0], [PlainFat32 EXCEPT ![512] = 0],
   SubSeq(PlainFat32, 1, 512), SubSeq(PlainFat32, 1, 575),
   SubSeq(PlainFat16, 1, 575), SubSeq(PlainFat16, 1, 576),
   SubSeq(PlainFat16, 1, 608), SubSeq(PlainFat16, 1, 640)}

\* The directory "HI" at cluster 0x80000003: the high word of its cluster
\* has its top bit set.
HighClusterDirSlot ==
  Pad(<<72, 73>>, 8) \o Pad(<<>>, 3) \o <<16>> \o Zeros(8) \o <<0, 128>>
    \o Zeros(4) \o U16Bytes(3) \o U32Bytes(0)
\* The directory "SZ" at cluster 3, with 4096 in its size field.
SizedDirSlot == ShortSlot(Pad(<<83, 90>>, 8), Pad(<<>>, 3), 16, 3, 4096)

\* Images off the beaten track: a root directory of the two directories
\* above; the FAT32 layout (no 16-bit sectors per FAT) on 100 sectors and
\* the FAT12/16 layout on 70000; 0 bytes per sector; 0 sectors per
\* cluster.
OddImages ==
  {Fat32BootSector(2) \o Fat32Sector([c \in ClusterNumbers |-> Fat32Mask])
     \o HighClusterDirSlot \o SizedDirSlot
     \o SubSeq(FilesOnly, 65, Len(FilesOnly)),
   BootSector(0, 100, 0, 0, 1, 2) \o Fat12Sector([c \in ClusterNumbers |-> 4095])
     \o FilesOnly,
   BootSector(2, 0, 1, 70000, 0, 0) \o Fat32Sector([c \in ClusterNumbers |-> Fat32Mask])
     \o FileSlot \o EndSlot \o FilesOnly,
   [PlainFat32 EXCEPT ![12] = 0, ![13] = 0],
   [PlainFat32 EXCEPT ![14] = 0]}

InputImages ==
  TreeImages \cup CycleImages \cup LoopImages \cup DamagedImages \cup OddImages

(***************************************************************************)
(* The viewer: processFile, which stores the result of parseE01 and the    *)
(* partition table of its raw disk, and parsePartitionFilesystem, which    *)
(* runs parseFAT on the slice of a partition of the table shown.           *)
(* processFile waits for parseE01; parsePartitionFilesystem runs to its    *)
(* end without waiting, its call of parseFAT taking the steps of parseFAT. *)
(***************************************************************************)
ExtractError == "Could not extract partition data"
FilesystemError == "Could not parse filesystem (tried FAT)"
FileError == "Failed to parse file"

\* The result processFile stores when parseE01 throws.
FailedResult == [InitialResult EXCEPT !.errors = <<FileError>>]

\* A plausible slip of processFile: the table is parsed from any buffer,
\* the empty one included.
HasRawDiskOrEmpty(r) == r.rawDiskData # None

\* parseResult.rawDiskData && parseResult.rawDiskData.length > 0
HasRawDisk(r) == r.rawDiskData # None /\ Len(r.rawDiskData[1]) > 0

\* A raw disk of the viewer's inputs: the MBR, a FAT partition of two
\* sectors holding the image, a partition of one sector of zeros, a
\* partition that is the boot sector of the image and nothing more, and a
\* partition outside the disk.
PartitionedDisk(image) ==
  MbrSector(<<Slot(128, 12, 1, 2), Slot(0, 6, 3, 1), Slot(0, 131, 100, 5),
              Slot(0, 11, 4, 1)>>, BootSignature)
    \o image \o Zeros(2 * DefaultSectorSize - Len(image))
    \o Zeros(DefaultSectorSize)
    \o SubSeq(image, 1, DefaultSectorSize)

\* A FAT16 image whose root holds the directory D2, of one file.
NestedFat16 ==
  Fat16BootSector \o Fat16Sector([c \in ClusterNumbers |-> 65535])
    \o SubDirTo(2) \o EndSlot \o FilesOnly

\* The files dropped on the viewer, each named by its place in the list
\* and given as what parseE01 returns for it: no raw disk (an invalid and
\* a valid file), an empty one, one too short for a partition table, one
\* without the boot signature, the partitioned disks.
ViewerFiles ==
  <<[InitialResult EXCEPT !.errors = <<InvalidSignatureError>>],
    [InitialResult EXCEPT !.valid = TRUE],
    [InitialResult EXCEPT !.valid = TRUE, !.rawDiskData = Some(<<>>)],
    [InitialResult EXCEPT !.valid = TRUE, !.rawDiskData = Some(<<1, 2, 3>>)],
    [InitialResult EXCEPT !.valid = TRUE, !.rawDiskData = Some(Zeros(DefaultSectorSize))],
    [InitialResult EXCEPT !.valid = TRUE, !.rawDiskData = Some(PartitionedDisk(PlainFat32))],
    [InitialResult EXCEPT !.valid = TRUE, !.rawDiskData = Some(PartitionedDisk(NestedFat16))]>>

ViewerResults == {ViewerFiles[f] : f \in DOMAIN ViewerFiles}

\* The most calls of processFile waiting for parseE01 at a time.
MaxPending == 2

\* processFile up to its wait for parseE01, on a file dropped or selected
\* while no handler runs: the name of the file is shown, the results of the
\* later stages are reset, the result of the file before stays.
ProcessFileStart ==
  /\ viewerPc \in {"idle", "loading"}
  /\ Cardinality(pending) < MaxPending
  /\ \E file \in DOMAIN ViewerFiles \ pending :
       /\ fileName' = Some(file)
       /\ pending' = pending \cup {file}
  /\ partitionTable' = None
  /\ selectedPartition' = None
  /\ viewerFatResult' = None
  /\ fsErrors' = <<>>
  /\ viewerPc' = "loading"
  /\ UNCHANGED <<viewerResult, outsideViewer>>

\* The parseE01 of a call of processFile has returned: its result is
\* stored, and the partition table of its raw disk when it has one that is
\* not empty; the loading flag is cleared.
ProcessFileFinish ==
  /\ viewerPc \in {"idle", "loading"}
  /\ \E file \in pending :
       LET parseResult == ViewerFiles[file]
       IN /\ viewerResult' = Some(parseResult)
          /\ partitionTable' =
               IF HasRawDisk(parseResult)
               THEN Some(parsePartitionTable(parseResult.rawDiskData[1], DefaultSectorSize))
               ELSE partitionTable
          /\ pending' = pending \ {file}
  /\ viewerPc' = "idle"
  /\ UNCHANGED <<selectedPartition, viewerFatResult, fsErrors, fileName, outsideViewer>>

\* The parseE01 of a call of processFile has thrown.
ProcessFileFails ==
  /\ viewerPc \in {"idle", "loading"}
  /\ \E file \in pending : pending' = pending \ {file}
  /\ viewerResult' = Some(FailedResult)
  /\ viewerPc' = "idle"
  /\ UNCHANGED <<partitionTable, selectedPartition, viewerFatResult, fsErrors, fileName, outsideViewer>>

\* partitionTable?.sectorSize || 512
SectorSizeOf(t) ==
  IF t = None \/ t[1].sectorSize = 0 THEN DefaultSectorSize ELSE t[1].sectorSize

\* parsePartitionFilesystem on a partition of the table shown, up to its
\* call of parseFAT: an empty slice ends it with an error.
SelectPartition ==
  /\ viewerPc = "idle"
  /\ partitionTable # None
  /\ viewerResult # None
  /\ viewerResult[1].rawDiskData # None
  /\ \E j \in 1..Len(partitionTable[1].partitions) :
       LET partition == partitionTable[1].partitions[j]
           partitionData == extractPartitionData(viewerResult[1].rawDiskData[1],
                                                 partition, SectorSizeOf(partitionTable))
       IN /\ selectedPartition' = Some(partition.index)
          /\ viewerFatResult' = None
          /\ IF Len(partitionData) = 0
             THEN /\ fsErrors' = <<ExtractError>>
                  /\ viewerPc' = "idle"
                  /\ UNCHANGED fatVars
             ELSE /\ fsErrors' = <<>>
                  /\ viewerPc' = "parsingFiles"
                  /\ fatData' = partitionData
                  /\ fatPc' = "start"
                  /\ fatResult' = InitialFatResult
                  /\ fatStack' = <<>>
                  /\ fatChain' = NoChain
  /\ UNCHANGED <<viewerResult, partitionTable, fileName, pending, ewfVars, hdrVars, ptVars, dirVars>>

\* parseFAT has returned: a valid result is stored, any other leaves an
\* error.
StoreFilesystem ==
  /\ viewerPc = "parsingFiles"
  /\ fatPc = "done"
  /\ IF fatResult.valid
     THEN viewerFatResult' = Some(fatResult) /\ UNCHANGED fsErrors
     ELSE fsErrors' = <<FilesystemError>> /\ UNCHANGED viewerFatResult
  /\ viewerPc' = "idle"
  /\ UNCHANGED <<viewerResult, partitionTable, selectedPartition, fileName, pending, outsideViewer>>

(***************************************************************************)
(* The specifications.  Each runs one decoder; the variables of the        *)
(* others stay idle.                                                       *)
(***************************************************************************)
EwfIdle ==
  /\ data = <<>>
  /\ pc = "idle"
  /\ offset = 0
  /\ dataChunks = <<>>
  /\ result = InitialResult

HdrIdle ==
  /\ hdrSections = <<>>
  /\ hdrIndex = 1
  /\ hdrMeta = EmptyMap

PtIdle ==
  /\ disk = <<>>
  /\ sectorSize = 0
  /\ table = None
  /\ extracted = None
  /\ ptPc = "idle"

DirIdle ==
  /\ dirData = <<>>
  /\ dirPath = <<>>
  /\ dirOffset = 0
  /\ longNameBuffer = <<>>
  /\ dirEntries = <<>>
  /\ dirPc = "idle"

FatIdle ==
  /\ fatData = <<>>
  /\ fatPc = "idle"
  /\ fatResult = InitialFatResult
  /\ fatStack = <<>>
  /\ fatChain = NoChain

ViewerIdle ==
  /\ viewerResult = None
  /\ partitionTable = None
  /\ selectedPartition = None
  /\ viewerFatResult = None
  /\ fsErrors = <<>>
  /\ viewerPc = "idle"
  /\ fileName = None
  /\ pending = {}

\* parseE01 on every input file.
InitEWF ==
  /\ data \in InputFiles
  /\ pc = "start"
  /\ offset = 0
  /\ dataChunks = <<>>
  /\ result = InitialResult
  /\ HdrIdle
  /\ PtIdle
  /\ DirIdle
  /\ FatIdle
  /\ ViewerIdle

NextEWF == CheckSignature \/ Walk \/ Finish

SpecEWF == InitEWF /\ [][NextEWF]_vars

\* The header sections of a file, decoded in order.
InitHeader ==
  /\ hdrSections \in QueuesFrom(<<>>, 1)
  /\ hdrIndex = 1
  /\ hdrMeta = EmptyMap
  /\ EwfIdle
  /\ PtIdle
  /\ DirIdle
  /\ FatIdle
  /\ ViewerIdle

NextHeader == DecodeHeader

SpecHeader == InitHeader /\ [][NextHeader]_vars

\* parsePartitionTable on every input disk, with the default sector size
\* and with 1024.
InitPT ==
  /\ disk \in InputDisks
  /\ sectorSize \in {DefaultSectorSize, 2 * DefaultSectorSize}
  /\ table = None
  /\ extracted = None
  /\ ptPc = "call"
  /\ EwfIdle
  /\ HdrIdle
  /\ DirIdle
  /\ FatIdle
  /\ ViewerIdle

NextPT == ParsePartitionTable \/ ExtractPartitionData

SpecPT == InitPT /\ [][NextPT]_vars

\* parseDirectory on every input directory, at the root and under "D".
InitDir ==
  /\ dirData \in InputDirectories
  /\ dirPath \in {<<>>, <<68>>}
  /\ dirOffset = 0
  /\ longNameBuffer = <<>>
  /\ dirEntries = <<>>
  /\ dirPc = "loop"
  /\ EwfIdle
  /\ HdrIdle
  /\ PtIdle
  /\ FatIdle
  /\ ViewerIdle

NextDir == DecodeSlot

SpecDir == InitDir /\ [][NextDir]_vars

\* parseFAT on every input image.
InitFAT ==
  /\ fatData \in InputImages
  /\ fatPc = "start"
  /\ fatResult = InitialFatResult
  /\ fatStack = <<>>
  /\ fatChain = NoChain
  /\ EwfIdle
  /\ HdrIdle
  /\ PtIdle
  /\ DirIdle
  /\ ViewerIdle

NextFAT == ParseFAT \/ ReadCluster \/ ListDirectory \/ VisitEntry \/ ReturnEntries

SpecFAT == InitFAT /\ [][NextFAT]_vars

\* The viewer as mounted, files dropped and partitions selected at will.
InitViewer ==
  /\ ViewerIdle
  /\ EwfIdle
  /\ HdrIdle
  /\ PtIdle
  /\ DirIdle
  /\ FatIdle

NextViewer ==
  \/ ProcessFileStart
  \/ ProcessFileFinish
  \/ ProcessFileFails
  \/ SelectPartition
  \/ (viewerPc = "parsingFiles" /\ NextFAT)
  \/ StoreFilesystem

SpecViewer == InitViewer /\ [][NextViewer]_vars

(***************************************************************************)
(* The claims about parseE01.                                              *)
(***************************************************************************)
\* Whether the file starts with the 8 signature bytes.
HasSignature(d) == Len(d) >= 8 /\ SubSeq(d, 1, 8) = EWF_SIGNATURE

\* C1: parseE01 returns valid = true if and only if the input has at least
\* 8 bytes and its first 8 bytes are the EWF signature; without the
\* signature the result has valid = false, exactly one error (the "Invalid
\* EWF signature" message), no sections, empty metadata and no raw disk.
C1_ValidIffSignature ==
  /\ result.valid => HasSignature(data)
  /\ pc = "done" =>
       /\ result.valid <=> HasSignature(data)
       /\ ~HasSignature(data) =>
            /\ result.errors = <<InvalidSignatureError>>
            /\ result.sections = <<>>
            /\ result.metadata = EmptyMap
            /\ result.rawDiskData = None

\* A file of more than 8 bytes whose first 7 bytes are the signature's and
\* whose 8th is not has been rejected.
C1_Witness ==
  /\ pc = "done"
  /\ ~result.valid
  /\ Len(data) > 8
  /\ SubSeq(data, 1, 7) = SubSeq(EWF_SIGNATURE, 1, 7)
  /\ data[8] # EWF_SIGNATURE[8]

\* C2: the offsets of the emitted sections are strictly increasing in
\* emission order, whatever next_offset and size the descriptors carry.
C2_OffsetsIncreasing ==
  \A i \in 1..(Len(result.sections) - 1) :
    result.sections[i].offset < result.sections[i + 1].offset

\* Two sections were emitted although the first one's next_offset is set
\* and does not point forward, or the second one's points backwards.
C2_Witness ==
  /\ pc = "done"
  /\ Len(result.sections) >= 2
  /\ \E i \in 1..Len(result.sections) :
       LET sec == result.sections[i]
       IN /\ ~BigIsZero(sec.nextOffset)
          /\ Number(sec.nextOffset) <= sec.offset
          /\ i = 1 \/ Number(sec.nextOffset) < sec.offset

\* The payloads of the emitted sections of type 'sectors' or 'data'.
DiskPayloads(sections) ==
  LET chosen == SelectSeq(sections,
                          LAMBDA sec : sec.type \in {SECTION_TYPES.SECTORS,
                                                     SECTION_TYPES.DATA})
  IN [i \in 1..Len(chosen) |-> chosen[i].data]

\* C3: a returned raw-disk buffer is as long as the payloads of the emitted
\* 'sectors' and 'data' sections together and holds them in emission order;
\* with no such section emitted there is no raw-disk buffer.
C3_RawDiskIsConcatenation ==
  pc = "done" =>
    /\ result.rawDiskData # None =>
         /\ Len(result.rawDiskData[1]) = SumLen(DiskPayloads(result.sections))
         /\ result.rawDiskData[1] = Concat(DiskPayloads(result.sections))
    /\ DiskPayloads(result.sections) = <<>> => result.rawDiskData = None

\* A raw disk was built from a 'sectors' and a 'data' payload of different
\* lengths.
C3_Witness ==
  /\ pc = "done"
  /\ result.rawDiskData # None
  /\ \E i, j \in 1..Len(result.sections) :
       /\ result.sections[i].type = SECTION_TYPES.SECTORS
       /\ result.sections[j].type = SECTION_TYPES.DATA
       /\ Len(result.sections[i].data) # Len(result.sections[j].data)

\* C4: the walk reads a descriptor at offset o whenever o + 76 <= file
\* length: a walk that has ended in front of a descriptor that fits ended
\* because that descriptor is empty or the last section is 'done'; and the
\* 89-byte minimal file gives valid = true with exactly one section, of type
\* 'done', no metadata and no raw disk.
C4_DescriptorReadWhenItFits ==
  /\ (pc \in {"finish", "done"} /\ result.valid
        /\ offset + DescriptorSize <= Len(data)) =>
       \/ IsEmptySection(readSectionType(data, offset), readUint64LE(data, offset + 24))
       \/ /\ result.sections # <<>>
          /\ result.sections[Len(result.sections)].type = SECTION_TYPES.DONE
  /\ (pc = "done" /\ data = MinimalEwf) =>
       /\ result.valid
       /\ Len(result.sections) = 1
       /\ result.sections[1].type = SECTION_TYPES.DONE
       /\ result.metadata = EmptyMap
       /\ result.rawDiskData = None

\* The number of steps parseE01 can still take, at most.
WalkRank ==
  CASE pc = "start" -> Len(data) + 4
    [] pc = "walk" -> Max(Len(data) - offset, 0) + 2
    [] pc = "finish" -> 1
    [] OTHER -> 0

\* C5: the section walk terminates on every input: an iteration that does
\* not stop the walk moves the offset strictly forward, an offset at or past
\* the end of the file ends the walk, and every step of parseE01 lowers a
\* bound on the steps left (parseE01 has a step to take wherever it stands
\* short of its return).
C5_WalkTerminates ==
  /\ [](pc \in {"start", "walk", "finish", "done"} /\ WalkRank >= 0)
  /\ [][/\ (pc = "walk" /\ pc' = "walk") => offset' > offset
        /\ (pc = "walk" /\ offset >= Len(data)) => pc' = "finish"
        /\ WalkRank' < WalkRank]_vars

\* parseE01 has returned from a walk that emitted a section whose
\* next_offset points into its own payload and a section whose next_offset
\* points at or before itself.
C5_Witness ==
  /\ pc = "done"
  /\ \E i \in 1..Len(result.sections) :
       LET sec == result.sections[i]
       IN /\ Number(sec.nextOffset) > sec.offset
          /\ Number(sec.nextOffset) < sec.offset + DescriptorSize + Len(sec.data)
  /\ \E i \in 1..Len(result.sections) :
       LET sec == result.sections[i]
       IN ~BigIsZero(sec.nextOffset) /\ Number(sec.nextOffset) <= sec.offset

(***************************************************************************)
(* The claims about header decoding.                                       *)
(***************************************************************************)
\* The alias table of the specification: each canonical key with its
\* aliases.
AliasTable ==
  [case_number |-> {HeaderKey.case_number, HeaderKey.c, HeaderKey.case},
   description |-> {HeaderKey.description, HeaderKey.n, HeaderKey.name},
   examiner_name |-> {HeaderKey.examiner_name, HeaderKey.e, HeaderKey.examiner},
   evidence_number |-> {HeaderKey.evidence_number, HeaderKey.ev, HeaderKey.evidence},
   notes |-> {HeaderKey.notes, HeaderKey.no},
   acquired_date |-> {HeaderKey.acquired_date, HeaderKey.a, HeaderKey.acquired},
   system_date |-> {HeaderKey.system_date, HeaderKey.m, HeaderKey.system},
   operating_system |-> {HeaderKey.operating_system, HeaderKey.os},
   password |-> {HeaderKey.password, HeaderKey.p},
   compression_level |-> {compression_level_key, HeaderKey.r, HeaderKey.compression}]

TableKeys == UNION {AliasTable[c] : c \in DOMAIN AliasTable}

HeadersDone == hdrSections # <<>> /\ hdrIndex > Len(hdrSections)

\* C6: header decoding stores the values of any two lines whose keys are a
\* canonical key or aliases of it under one and the same metadata key, the
\* later line overriding the earlier; a key outside the table is kept
\* under its lower-case name.
C6_AliasesCollapse ==
  HeadersDone =>
    /\ \A c \in DOMAIN AliasTable : \A k1, k2 \in AliasTable[c] :
         \A s1, s2 \in {9, 61} :
           hdrSections = <<k1 \o <<s1, 65>>, k2 \o <<s2, 66>>>> =>
             /\ Cardinality(DOMAIN hdrMeta) = 1
             /\ \A k \in DOMAIN hdrMeta : hdrMeta[k] = <<66>>
    /\ \A k \in LineKeys : \A s1 \in {9, 61} :
         (/\ hdrSections = <<k \o <<s1, 65>>>>
          /\ Trim(k) # <<>>
          /\ ToLowerCase(Trim(k)) \notin TableKeys) =>
           hdrMeta = [x \in {ToLowerCase(Trim(k))} |-> <<65>>]

\* C7: header decoding drops every line whose key or value is empty after
\* trimming: no metadata key is the empty string or holds the empty string,
\* and a section made of one line with an empty value leaves the metadata
\* of the earlier sections as it was.
C7_EmptyValuesDropped ==
  /\ [](\A k \in DOMAIN hdrMeta : k # <<>> /\ hdrMeta[k] # <<>>)
  /\ [][(/\ hdrIndex <= Len(hdrSections)
         /\ \E k \in LineKeys, s1 \in {9, 61} : hdrSections[hdrIndex] = k \o <<s1>>)
          => hdrMeta' = hdrMeta]_vars

(***************************************************************************)
(* The claims about parsePartitionTable.                                   *)
(***************************************************************************)
\* The offset of MBR slot s (1..4) and the fields stored in it.
SlotOffset(s) == 446 + 16 * (s - 1)
SlotType(s) == disk[SlotOffset(s) + 5]
SlotBootFlag(s) == disk[SlotOffset(s) + 1]
SlotLE32(s, at) ==
  disk[SlotOffset(s) + at + 1] + 256 * disk[SlotOffset(s) + at + 2]
    + 65536 * disk[SlotOffset(s) + at + 3]
    + 16777216 * disk[SlotOffset(s) + at + 4]

\* The buffer holds a first sector with the boot signature.
HasBootSignature == Len(disk) >= 512 /\ disk[511] = 85 /\ disk[512] = 170

\* C8: for a buffer of at least 512 bytes with 0x55 0xAA at 510/511 and no
\* slot of type 0xEE, the table is of kind MBR and holds exactly one
\* partition per slot of non-zero type, in slot order, with index = slot
\* number, start and size as stored, end = start + size - 1,
\* size_bytes = size * sector size, bootable exactly for boot flag 0x80.
C8_MbrPartitionsPerSlot ==
  (/\ ptPc = "done"
   /\ HasBootSignature
   /\ \A s \in 1..4 : SlotType(s) # 238) =>
    LET partitions == table[1].partitions
        used == {s \in 1..4 : SlotType(s) # 0}
    IN /\ table[1].type = "MBR"
       /\ Len(partitions) = Cardinality(used)
       /\ \A j \in 1..Len(partitions) :
            LET p == partitions[j]
            IN /\ p.index \in used
               /\ j > 1 => partitions[j - 1].index < p.index
               /\ p.typeCode = SlotType(p.index)
               /\ p.startLBA = SlotLE32(p.index, 8)
               /\ p.sizeLBA = SlotLE32(p.index, 12)
               /\ p.endLBA = p.startLBA + p.sizeLBA - 1
               /\ p.sizeBytes = p.sizeLBA * sectorSize
               /\ p.bootable = (SlotBootFlag(p.index) = 128)

\* A table of three MBR partitions, slot 2 skipped, one bootable and one
\* whose boot flag is neither 0x00 nor 0x80, under a sector size of 1024.
C8_Witness ==
  /\ ptPc = "done"
  /\ HasBootSignature
  /\ sectorSize = 1024
  /\ table[1].type = "MBR"
  /\ Len(table[1].partitions) = 3
  /\ SlotType(2) = 0 /\ SlotBootFlag(2) = 128
  /\ table[1].partitions[1].bootable
  /\ \E j \in 1..3 :
       /\ ~table[1].partitions[j].bootable
       /\ SlotBootFlag(table[1].partitions[j].index) = 1

\* The buffer holds the GPT header signature at offset sectorSize and the
\* 92 bytes of the header.
HasGptHeader ==
  /\ Len(disk) >= sectorSize + 92
  /\ SubSeq(disk, sectorSize + 1, sectorSize + 8) = <<69, 70, 73, 32, 80, 65, 82, 84>>

\* The table is what the GPT path yields on the buffer: never of kind MBR,
\* no partition of an MBR slot in it (every partition has a GUID), and with
\* a valid GPT header at offset sectorSize the kind is GPT and the disk
\* GUID is set.
EscalatedToGpt ==
  /\ table[1].type # "MBR"
  /\ \A j \in 1..Len(table[1].partitions) :
       table[1].partitions[j].guid # None
  /\ table[1] = parseGPT(disk, sectorSize)
  /\ HasGptHeader => (table[1].type = "GPT" /\ table[1].diskGuid # None)

\* C9 as stated: whenever any of the four slots has type 0xEE, whatever
\* the other slots hold, the table is what the GPT path yields.
C9_AnyProtectiveSlotEscalates ==
  (/\ ptPc = "done"
   /\ Len(disk) >= 510
   /\ \E s \in 1..4 : SlotType(s) = 238) => EscalatedToGpt

\* C9: when the buffer has at least 512 bytes and the boot signature
\* 0x55 0xAA at 510/511, and any of the four slots has type 0xEE, whatever
\* the other slots hold, the table is what the GPT path yields.
C9_ProtectiveSlotEscalates ==
  (/\ ptPc = "done"
   /\ HasBootSignature
   /\ \E s \in 1..4 : SlotType(s) = 238) => EscalatedToGpt

\* The protective slot is the third, after a FAT32 slot, and the GPT
\* behind it yields a partition.
C9_Witness ==
  /\ ptPc = "done"
  /\ HasBootSignature
  /\ SlotType(1) = 12
  /\ SlotType(3) = 238
  /\ HasGptHeader
  /\ table[1].type = "GPT"
  /\ table[1].diskGuid # None
  /\ Len(table[1].partitions) >= 1

\* C10: every partition of the table, from the MBR path or the GPT path,
\* has start_lba <= end_lba and size_lba >= 1.
C10_StartNotAfterEnd ==
  ptPc = "done" =>
    \A j \in 1..Len(table[1].partitions) :
      /\ table[1].partitions[j].startLBA <= table[1].partitions[j].endLBA
      /\ table[1].partitions[j].sizeLBA >= 1

(***************************************************************************)
(* The claims about extractPartitionData and the kind of the table.        *)
(***************************************************************************)
\* C11: for every partition of the table, the slice extractPartitionData
\* returns is at most size_lba * sector size and at most the disk long, and
\* it is empty when the partition starts at or beyond the end of the disk.
C11_ExtractedSliceBounded ==
  ptPc = "extracted" =>
    LET p == table[1].partitions[extracted[1].partition]
        bytes == extracted[1].bytes
    IN /\ Len(bytes) <= p.sizeLBA * sectorSize
       /\ Len(bytes) <= Len(disk)
       /\ p.startLBA * sectorSize >= Len(disk) => bytes = <<>>

\* C12: the kind is GPT only when the buffer holds sector size + 92 bytes
\* and "EFI PART" at offset sector size; when the buffer is shorter than
\* 512 bytes, lacks 0x55 0xAA, or has a protective slot without such a
\* header behind it, the kind is Unknown and there are no partitions.
C12_GptOnlyWithHeader ==
  ptPc = "done" =>
    /\ table[1].type = "GPT" => HasGptHeader
    /\ (\/ ~HasBootSignature
        \/ (\E s \in 1..4 : SlotType(s) = 238) /\ ~HasGptHeader) =>
         (table[1].type = "Unknown" /\ table[1].partitions = <<>>)

(***************************************************************************)
(* The claim about the sections parseE01 emits.                            *)
(***************************************************************************)
\* C20: every section of the result has a non-empty type and a non-zero
\* size field; its payload is the bytes of the file from offset + 76, of
\* length min(size, file length - (offset + 76)), so that
\* offset + 76 + len(data) <= file length.
C20_SectionPayloadInsideFile ==
  \A i \in 1..Len(result.sections) :
    LET sec == result.sections[i]
        remaining == Len(data) - (sec.offset + 76)
    IN /\ sec.type # <<>>
       /\ \E b \in 1..8 : sec.size[b] # 0
       /\ Len(sec.data) = Min(Number(sec.size), remaining)
       /\ sec.offset + 76 + Len(sec.data) <= Len(data)
       /\ \A k \in 1..Len(sec.data) : sec.data[k] = data[sec.offset + 76 + k]

\* A result whose first section holds its whole size as payload and whose
\* second section has a size beyond 32 bits, cut at the end of the file.
C20_Witness ==
  /\ pc = "done"
  /\ Len(result.sections) = 2
  /\ Len(result.sections[1].data) = Number(result.sections[1].size)
  /\ Len(result.sections[1].data) > 0
  /\ \E b \in 5..8 : result.sections[2].size[b] # 0
  /\ result.sections[2].offset + 76 + Len(result.sections[2].data) = Len(data)
  /\ Len(result.sections[2].data) > 0

(***************************************************************************)
(* The claims about directory decoding.                                    *)
(***************************************************************************)
\* The slot at offset o of the directory is in use: neither the end marker
\* nor a deleted entry.
SlotInUse(o) == dirData[o + 1] # 0 /\ dirData[o + 1] # 229
\* The slot is a long-name slot, and its ordinal.
SlotIsLfn(o) == SlotInUse(o) /\ dirData[o + 12] % 16 = 15
SlotOrdinal(o) == dirData[o + 1] % 64
\* The name and extension of a short entry, space-padded on disk.
SlotShortName(o) ==
  LET t == Trim(AsciiDecode(SubSeq(dirData, o + 1, o + 8)))
  IN IF dirData[o + 1] = 5 THEN <<229>> \o Tail(t) ELSE t
SlotExtension(o) == Trim(AsciiDecode(SubSeq(dirData, o + 9, o + 11)))
\* The slot is a short entry that is not skipped as a volume label.
SlotIsShort(o) ==
  /\ SlotInUse(o)
  /\ ~SlotIsLfn(o)
  /\ ~((dirData[o + 12] \div 8) % 2 = 1 /\ (dirData[o + 12] \div 16) % 2 = 0)
SlotIsDot(o) ==
  SlotIsShort(o) /\ SlotShortName(o) \in {<<46>>, <<46, 46>>}
SlotEmits(o) == SlotIsShort(o) /\ ~SlotIsDot(o)

RECURSIVE LfnRunBefore(_)
\* The number of long-name slots right before offset o.
LfnRunBefore(o) ==
  IF o >= 32 /\ SlotIsLfn(o - 32) THEN 1 + LfnRunBefore(o - 32) ELSE 0

\* The n long-name slots before o carry the ordinals 1..n, each once, and
\* nothing is pending before them: the directory starts there or an
\* emitted short entry precedes them.
OrdinalsComplete(o, n) ==
  /\ \A k \in 1..n : Cardinality({j \in 1..n : SlotOrdinal(o - 32 * j) = k}) = 1
  /\ o - 32 * n = 0 \/ SlotEmits(o - 32 * (n + 1))

RECURSIVE LongNameUpTo(_, _, _)
\* The strings of the slots of ordinals 1..k among the n slots before o.
LongNameUpTo(o, n, k) ==
  IF k = 0 THEN <<>>
  ELSE LongNameUpTo(o, n, k - 1)
         \o LfnChars(dirData,
              CHOOSE q \in {o - 32 * j : j \in 1..n} : SlotOrdinal(q) = k, 1)

\* C17: a short entry other than '.' and '..' that follows long-name slots
\* of ordinals 1..n, in any physical order, is emitted under the
\* concatenation of their strings in ascending ordinal order, with the
\* short name, extension, size and cluster of the short entry; without
\* pending slots its name is SHORT.EXT, or SHORT when the extension is
\* empty.
C17_LongNameInOrdinalOrder ==
  [][(/\ dirPc = "loop"
      /\ dirOffset + 32 <= Len(dirData)
      /\ SlotEmits(dirOffset)
      /\ OrdinalsComplete(dirOffset, LfnRunBefore(dirOffset))) =>
       LET o == dirOffset
           n == LfnRunBefore(o)
           e == dirEntries'[Len(dirEntries')]
       IN /\ Len(dirEntries') = Len(dirEntries) + 1
          /\ e.name = IF n > 0 THEN LongNameUpTo(o, n, n)
                      ELSE IF SlotExtension(o) # <<>>
                      THEN SlotShortName(o) \o <<46>> \o SlotExtension(o)
                      ELSE SlotShortName(o)
          /\ e.shortName = SlotShortName(o)
          /\ e.extension = SlotExtension(o)
          /\ e.size = dirData[o + 29] + 256 * dirData[o + 30]
                        + 65536 * dirData[o + 31] + 16777216 * dirData[o + 32]
          /\ e.cluster = dirData[o + 27] + 256 * dirData[o + 28]
                           + 65536 * (dirData[o + 21] + 256 * dirData[o + 22])]_vars

\* The slot of ordinal 2 stored before the slot of ordinal 1, then
\* FILE.TXT: one entry, named "abcd", with the fields of the short entry;
\* the long-name buffer is empty again.
C17_Witness ==
  /\ dirPc = "done"
  /\ dirData = LfnSlot(66, <<99, 100>>) \o LfnSlot(1, <<97, 98>>) \o FileSlot
  /\ Len(dirEntries) = 1
  /\ dirEntries[1].name = <<97, 98, 99, 100>>
  /\ dirEntries[1].shortName = <<70, 73, 76, 69>>
  /\ dirEntries[1].extension = <<84, 88, 84>>
  /\ dirEntries[1].cluster = 65539
  /\ longNameBuffer = <<>>

\* C18: decoding a '.' or '..' entry emits nothing and leaves the
\* long-name buffer empty, so that the slots pending before it do not
\* reach the name of a later entry: FILE.TXT behind a long-name slot and a
\* '.' entry is emitted as FILE.TXT.
C18_DotEntryClearsLongName ==
  /\ [](\A q \in {LfnSlot(1, <<97, 98>>), LfnSlot(66, <<99, 100>>)} :
         (dirPc = "done" /\ dirData = q \o DotSlot \o FileSlot) =>
           (Len(dirEntries) = 1 /\ dirEntries[1].name = dirEntries[1].shortName
                                      \o <<46>> \o dirEntries[1].extension))
  /\ [][(/\ dirPc = "loop"
         /\ dirOffset + 32 <= Len(dirData)
         /\ SlotIsDot(dirOffset)) =>
          (dirEntries' = dirEntries /\ longNameBuffer' = <<>>)]_vars

(***************************************************************************)
(* The claims about parseFAT.                                              *)
(***************************************************************************)
\* The FAT32 image whose root is cluster 2 and whose cluster 2 is its own
\* next cluster.
SelfLoopImage == Fat32BootSector(2) \o Fat32Sector((2 :> 2)) \o FilesOnly

\* C13: readClusterChain visits at most 10,000 clusters and then returns:
\* every pass of its loop counts one step, however the FAT reads; on a
\* FAT32 table whose cluster 2 is its own next, with cluster 2 inside the
\* partition, the loop ends at step 10,000 and the buffer returned is not
\* empty and at most 10,000 clusters long.
C13_ChainVisitsBounded ==
  /\ [](/\ fatChain.iterations <= MaxChainIterations
        /\ ClusterCount(fatChain.clusters) <= fatChain.iterations
        /\ (/\ fatPc = "chain"
            /\ fatResult.fatType = "FAT32"
            /\ fatChain.cluster = 2
            /\ fatChain.iterations > 0
            /\ getNextCluster(FatTable(fatData, fatResult.bootSector[1]), 2, "FAT32") = 2
            /\ ClusterFits(fatData, fatResult.bootSector[1], 2)
            /\ ~ChainContinues(fatChain.cluster, fatChain.iterations, "FAT32")) =>
             LET bs == fatResult.bootSector[1]
                 returned == ChainBytes(fatData, bs, ClusterOffsets(fatChain.clusters))
             IN /\ fatChain.iterations = MaxChainIterations
                /\ Len(returned) > 0
                /\ Len(returned) <= MaxChainIterations * ClusterSize(bs))
  /\ [][(fatPc = "chain" /\ fatPc' = "chain") =>
          fatChain'.iterations = fatChain.iterations + 1]_vars

\* The chain of the self-loop image was read in 10,000 steps, each of
\* which pushed cluster 2, and the directory read was listed up to its
\* end marker.
C13_Witness ==
  /\ fatPc = "walk"
  /\ fatData = SelfLoopImage
  /\ fatChain.iterations = MaxChainIterations
  /\ ClusterCount(fatChain.clusters) = MaxChainIterations
  /\ Len(fatStack) = 1
  /\ Len(fatStack[1].entries) = 1

RECURSIVE WithinDepthCap(_, _)
\* Among the entries, at the depth, and below them: an entry with
\* children is at most MaxDepth deep, and a directory deeper than that has
\* the empty list for children.
WithinDepthCap(entries, depth) ==
  \A i \in 1..Len(entries) :
    LET e == entries[i]
    IN /\ (e.isDirectory /\ e.cluster >= 2 /\ depth > MaxDepth) => e.children = Some(<<>>)
       /\ e.children # None =>
            /\ e.children[1] # <<>> => depth <= MaxDepth
            /\ WithinDepthCap(e.children[1], depth + 1)

\* C14: the directory tree of a result is at most 10 levels deep, the
\* entries of the root directory being at depth 1: every entry with
\* children is at depth 10 at most, and a directory beyond the cap has an
\* empty list of children, no error being recorded for it.
C14_TreeDepthCapped ==
  fatPc = "done" =>
    /\ WithinDepthCap(fatResult.rootEntries, 1)
    /\ fatResult.rootEntries # <<>> => fatResult.errors = <<>>

\* The walk at each level of the recursion, the outermost first: a loop
\* over entries counts the entries left, a chain being read the steps
\* left; then a level not entered.  A loop lies below a chain, a chain
\* below a level not entered.
LevelRank(k) ==
  IF k <= Len(fatStack)
  THEN <<0, Len(fatStack[k].entries) + 1 - fatStack[k].index>>
  ELSE IF k = Len(fatStack) + 1 /\ fatPc = "chain"
  THEN <<1, MaxChainIterations - fatChain.iterations>>
  ELSE <<2, 0>>

\* parseFAT before its return, then the levels.
FatRank ==
  <<IF fatPc = "done" THEN 0 ELSE 1>>
    \o Concat([k \in 1..(MaxDepth + 2) |-> LevelRank(k)])

\* a comes before b in the lexicographic order
LexLess(a, b) ==
  \E i \in 1..Len(a) : a[i] < b[i] /\ \A j \in 1..(i - 1) : a[j] = b[j]

\* C15: parseFAT terminates on every image, directory cycles and looping
\* chains included: with the depth cap the recursion is never more than
\* 12 levels deep, every step lowers the rank of the walk in a
\* well-founded order, and parseFAT has a step to take wherever it stands
\* short of its return.
C15_ParseFATTerminates ==
  /\ [](/\ fatPc \in {"start", "chain", "walk", "done"}
        /\ fatPc = "walk" => fatStack # <<>>
        /\ Len(fatStack) + (IF fatPc = "chain" THEN 1 ELSE 0) <= MaxDepth + 2
        /\ \A i \in 1..Len(FatRank) : FatRank[i] >= 0)
  /\ [][LexLess(FatRank', FatRank)]_vars

\* parseFAT has returned from an image whose every cluster holds the
\* directory D2: the root lists itself, down to the depth cap.
C15_Witness ==
  /\ fatPc = "done"
  /\ fatData = Fat32BootSector(2) \o Fat32Sector([c \in ClusterNumbers |-> Fat32Mask])
                 \o DataArea([c \in ClusterNumbers |-> SubDirTo(2) \o EndSlot])
  /\ Len(fatResult.rootEntries) = 1
  /\ fatResult.rootEntries[1].children # None
  /\ fatResult.rootEntries[1].children[1] # <<>>

\* The boot sector is accepted: 512 bytes at least and 55 AA at 510.
BootSectorAccepted == Len(fatData) >= 512 /\ fatData[511] = 85 /\ fatData[512] = 170

\* C16: the valid flag of a result is true exactly when the boot sector
\* was accepted; a result without boot sector carries an error; valid never
\* falls back to false; a FAT, or a fixed root directory of FAT12/16, that
\* ends beyond the partition leaves an error and an empty root listing.
C16_ValidIffBootSector ==
  /\ [](fatPc = "done" =>
          /\ fatResult.valid <=> BootSectorAccepted
          /\ ~fatResult.valid => (fatResult.errors # <<>> /\ fatResult.bootSector = None)
          /\ fatResult.valid =>
               LET bs == parseBootSector(fatData)[1]
               IN (\/ FatOffset(bs) + FatSize(bs) > Len(fatData)
                   \/ /\ fatResult.fatType # "FAT32"
                      /\ RootDirOffset(bs) + RootDirSize(bs) > Len(fatData)) =>
                    (fatResult.errors # <<>> /\ fatResult.rootEntries = <<>>))
  /\ [][fatResult.valid => fatResult'.valid]_vars

\* A FAT16 partition cut inside its root directory: valid, with the one
\* error and no root entry.
C16_Witness ==
  /\ fatPc = "done"
  /\ fatResult.valid
  /\ fatResult.fatType = "FAT16"
  /\ fatResult.bootSector # None
  /\ fatResult.errors = <<RootBeyondImageError>>
  /\ fatResult.rootEntries = <<>>

(***************************************************************************)
(* The claim about the viewer.                                             *)
(***************************************************************************)
\* The slice parsePartitionFilesystem took of the partition selected.
SelectedSlice ==
  LET partitions == partitionTable[1].partitions
      j == CHOOSE k \in 1..Len(partitions) : partitions[k].index = selectedPartition[1]
  IN extractPartitionData(viewerResult[1].rawDiskData[1], partitions[j],
                          SectorSizeOf(partitionTable))

\* C19: a failure of a later stage leaves the results of the earlier ones:
\* no step of parsePartitionFilesystem (a step that neither starts nor ends
\* a wait for parseE01) changes the stored result of parseE01 or the
\* stored partition table; when it ends in failure (the slice of the
\* partition is empty, or parseFAT returned valid = false) no FAT result
\* is stored and the list of filesystem errors is not empty; and a
\* partition table is stored only for a raw disk that is not empty, of
\* which it is the table.
C19_LaterStageLeavesEarlier ==
  /\ [][pending' = pending =>
          /\ viewerResult' = viewerResult
          /\ partitionTable' = partitionTable
          /\ (/\ viewerPc' = "idle"
              /\ selectedPartition' # None
              /\ \/ Len(SelectedSlice') = 0
                 \/ viewerPc = "parsingFiles" /\ ~fatResult.valid) =>
               (viewerFatResult' = None /\ fsErrors' # <<>>)]_vars
  /\ [][(partitionTable' # partitionTable /\ partitionTable' # None) =>
          /\ viewerResult' # None
          /\ viewerResult'[1].rawDiskData # None
          /\ Len(viewerResult'[1].rawDiskData[1]) > 0
          /\ partitionTable'[1] = parsePartitionTable(viewerResult'[1].rawDiskData[1],
                                                      DefaultSectorSize)]_vars

\* A partition of zeros was selected on the disk with the FAT32
\* partition: parseFAT rejected it, the error is shown, no FAT result is
\* stored, and the table of four partitions is still there.
C19_Witness ==
  /\ viewerPc = "idle"
  /\ viewerResult # None
  /\ viewerResult[1].rawDiskData = Some(PartitionedDisk(PlainFat32))
  /\ partitionTable # None
  /\ Len(partitionTable[1].partitions) = 4
  /\ selectedPartition = Some(2)
  /\ fatPc = "done"
  /\ ~fatResult.valid
  /\ viewerFatResult = None
  /\ fsErrors = <<FilesystemError>>

(***************************************************************************)
(* The claims of the behaviour tier.                                       *)
(***************************************************************************)
\* The metadata of a header payload taken as it is: decoded, split into
\* lines, every line read.
PlainMetadata(sectionData) ==
  HeaderLines(EmptyMap, Split(Utf8Decode(sectionData), {13, 10}, TRUE))

\* C21: a header payload that starts with 0x78 is decoded to the metadata
\* of the payload taken as it is: no byte is removed before the text is
\* split into lines.
C21_ZlibLookingHeaderUnchanged ==
  [][(/\ hdrIndex <= Len(hdrSections)
      /\ hdrSections[hdrIndex] # <<>>
      /\ hdrSections[hdrIndex][1] = 120) =>
       hdrMeta' = MapMerge(hdrMeta, PlainMetadata(hdrSections[hdrIndex]))]_vars

\* The entries of the directories being walked and of the result.
RECURSIVE EntriesBelow(_)
EntriesBelow(entries) ==
  UNION {{entries[i]} \cup (IF entries[i].children # None
                             THEN EntriesBelow(entries[i].children[1]) ELSE {}) :
           i \in 1..Len(entries)}
EmittedEntries ==
  EntriesBelow(fatResult.rootEntries)
    \cup UNION {EntriesBelow(fatStack[k].entries) : k \in 1..Len(fatStack)}

\* C22: the root cluster of a result's boot sector is non-zero only when
\* the variant reported is FAT32, and a boot sector read with the FAT32
\* layout (no 16-bit sectors per FAT) has its root directory read from the
\* chain of its root cluster.
C22_RootClusterOnlyFat32 ==
  /\ [](fatResult.bootSector # None =>
          (fatResult.fatType \in {"FAT12", "FAT16"} =>
             fatResult.bootSector[1].rootCluster = 0))
  /\ [][(/\ fatPc = "start"
         /\ BootSectorAccepted
         /\ readUint16LE(fatData, 22) = 0
         /\ fatResult'.errors = <<>>) =>
          (/\ fatPc' = "chain"
           /\ fatChain'.cluster = fatResult'.bootSector[1].rootCluster)]_vars

\* C23: the cluster of an emitted entry is the unsigned 32-bit value of
\* its two words, never negative, so that every directory whose cluster is
\* neither 0 nor 1 is walked: in a result, within the depth cap, it has a
\* list of children.
C23_ClusterUnsigned ==
  /\ \A e \in EmittedEntries : e.cluster >= 0
  /\ fatPc = "done" =>
       \A i \in 1..Len(fatResult.rootEntries) :
         LET e == fatResult.rootEntries[i]
         IN (e.isDirectory /\ e.cluster \notin {0, 1}) => e.children # None

\* C24: an emitted directory has size 0, whatever its size field holds,
\* and only directories have a list of children.
C24_DirectorySizeZero ==
  \A e \in EmittedEntries :
    /\ e.isDirectory => e.size = 0
    /\ e.children # None => e.isDirectory

RECURSIVE MaxAncestors(_)
\* The largest number of ancestors of an entry among the entries and
\* below them; -1 where there is no entry.
MaxAncestors(entries) ==
  LET below == {IF entries[i].children # None
                THEN 1 + MaxAncestors(entries[i].children[1]) ELSE 0 :
                  i \in 1..Len(entries)}
  IN IF entries = <<>> THEN 0 - 1
     ELSE CHOOSE m \in below : \A n \in below : n <= m

\* C27: the depth cap is the same for every variant: an entry of a result
\* has the ancestors an entry has under a FAT32 root walked at depth 0,
\* MaxDepth at most, under the fixed root of FAT12/16 as well.
C27_DepthCapSameForVariants ==
  fatPc = "done" => MaxAncestors(fatResult.rootEntries) <= MaxDepth

\* C28: a valid result has a usable geometry: its bytes per sector and its
\* sectors per cluster are positive.
C28_ValidGeometry ==
  fatResult.valid =>
    /\ fatResult.bootSector[1].bytesPerSector > 0
    /\ fatResult.bootSector[1].sectorsPerCluster > 0

RECURSIVE PreviousShort(_)
\* The offset of the nearest slot before o that is in use and is not a
\* long-name slot: the previous short entry that is not deleted, a volume
\* label or a '.' entry included; -32 where there is none.
PreviousShort(o) ==
  IF o = 0 THEN 0 - 32
  ELSE IF SlotInUse(o - 32) /\ ~SlotIsLfn(o - 32) THEN o - 32
  ELSE PreviousShort(o - 32)

RECURSIVE BufferBetween(_, _)
\* The long-name buffer built from the long-name slots from p up to o
\* alone.
BufferBetween(p, o) ==
  IF o <= p THEN <<>>
  ELSE LET b == BufferBetween(p, o - 32)
       IN IF SlotIsLfn(o - 32)
          THEN ArraySet(b, SlotOrdinal(o - 32) - 1, LfnChars(dirData, o - 32, 1))
          ELSE b

\* C25: the long name of an emitted entry is built from the long-name
\* slots behind the previous short entry that is not deleted, and from no
\* other: slots in front of a volume label or a '.' or '..' entry do not
\* reach the name of the entry behind it.
C25_LongNameOfOwnSlotsOnly ==
  [][(/\ dirPc = "loop"
      /\ dirOffset + 32 <= Len(dirData)
      /\ SlotEmits(dirOffset)) =>
       LET b == BufferBetween(PreviousShort(dirOffset) + 32, dirOffset)
           e == dirEntries'[Len(dirEntries')]
       IN /\ Len(dirEntries') = Len(dirEntries) + 1
          /\ e.name = IF Len(b) > 0 THEN Concat(b)
                      ELSE IF SlotExtension(dirOffset) # <<>>
                      THEN SlotShortName(dirOffset) \o <<46>> \o SlotExtension(dirOffset)
                      ELSE SlotShortName(dirOffset)]_vars

\* C26: the payloads of the sections of a result are byte ranges of the
\* file that do not overlap, so that the raw disk data, the payloads of
\* the disk chunks one after the other, is no longer than the file.
C26_PayloadsDoNotOverlap ==
  /\ \A i, j \in 1..Len(result.sections) :
       i < j => result.sections[i].offset + DescriptorSize + Len(result.sections[i].data)
                  <= result.sections[j].offset + DescriptorSize
  /\ result.rawDiskData # None => Len(result.rawDiskData[1]) <= Len(data)

\* What processFile leaves of a file once its parseE01 has returned, or has
\* thrown: the result and the partition table.
ShownFor(file) ==
  {<<Some(ViewerFiles[file]),
     IF HasRawDisk(ViewerFiles[file])
     THEN Some(parsePartitionTable(ViewerFiles[file].rawDiskData[1], DefaultSectorSize))
     ELSE None>>,
   <<Some(FailedResult), None>>}

\* C29: with files submitted while the parse of an earlier one is pending,
\* once no parse is pending the result and the partition table shown are
\* those of the file submitted last, the one whose name is shown, in
\* whatever order the parses have ended; and while a parse is pending the
\* loading indicator is on.
C29_LastSubmittedFileShown ==
  /\ (pending = {} /\ fileName # None) =>
       <<viewerResult, partitionTable>> \in ShownFor(fileName[1])
  /\ pending # {} => viewerPc = "loading"
====
